---- MODULE Spec2Model ----
(***************************************************************************)
(* Model of the provisioning-and-rollout pipeline of nai-llm-k8s:          *)
(*   - llm/generate.py            file verification, download, packaging   *)
(*   - llm/utils/marsgen.py       archiver invocation and progress thread  *)
(*   - llm/utils/system_utils.py  filesystem helpers                       *)
(*   - llm/kubeflow_inference_run.py  deployment and health check          *)
(*   - llm/cleanup.py, llm/utils/cleanup.py  removal of a deployment       *)
(* The specifications of the module:                                       *)
(*   VerifySpec    the pure verification functions on bounded listings     *)
(*   HealthSpec    health_check against a nondeterministic endpoint        *)
(*   MarsSpec      generate_mars: main thread, archiver, reporter thread   *)
(*   DeploySpec    kubeflow_inference_run.execute, first to last statement *)
(*   CleanupSpec   cleanup.kubernetes run repeatedly on one cluster        *)
(*   ConfigSpec    the values set_config writes into model_snapshot        *)
(*   RunSpec       one run of generate.run_script under any command line   *)
(*   Spec          generate.run_script run repeatedly on one filesystem    *)
(***************************************************************************)
EXTENDS Naturals, Integers, Sequences, FiniteSets, TLC

VARIABLES
    \* ---- VerifySpec
    v_pc,            \* "input" | "compared" | "verified"
    v_local,         \* listing of model_path (get_all_files_in_directory)
    v_remote,        \* listing returned by the hub (get_repo_files_list)
    v_result,        \* value returned by the function applied
    \* ---- HealthSpec
    hc_pc,           \* position in health_check
    model_timeout,   \* the caller's budget, in seconds
    retry_count,
    success,
    hc_log,          \* what health_check did so far: attempts and sleeps
    \* ---- MarsSpec
    m_pc,                 \* main thread, inside generate_mars
    r_pc,                 \* reporter thread, inside monitor_marfile_size
    a_status,             \* archiver subprocess: idle, running, ok, failed
    a_opened,             \* the archiver has opened its output file
    mar_file,             \* size of {model_name}.mar, -1 when there is none
    stop_monitoring,      \* threading.Event
    current_file_size,    \* reporter local, -1 while unbound
    previous_file_size,   \* reporter local
    progress_n,           \* what the progress bar has been advanced to
    approx_marfile_size,  \* estimate passed to the reporter
    \* ---- DeploySpec: kubeflow_inference_run.execute
    d_pc,             \* position in execute
    mem,              \* params.mem, a string of characters
    nfs,              \* params.nfs.split(":")
    mount_isdir,      \* os.path.isdir(params.mount_path)
    d_in_catalog,     \* params.model_name is a key of model_config.json
    d_calls,          \* cluster mutation calls made so far, in order
    d_requested,      \* params.repo_version
    model_info,       \* model_info: repo_id, repo_version, hf_token
    d_hub_log,        \* hub lookups of check_if_valid_version
    d_version_dir,    \* os.path.exists(model_spec_path) as it was found
    d_exit_cause,     \* the check of execute that called sys.exit(1)
    d_failed,         \* the cluster call that raised, "none" if none did
    storageuri,       \* storage_uri of the inference service descriptor
    input_path,       \* params.data: None, a missing path or a directory
    model_inputs,     \* get_inputs_from_folder(input_path)
    is_success,       \* local of execute_inference_on_inputs
    infer_log,        \* inference calls of the validation pass
    \* ---- ConfigSpec: the model_snapshot values of generate.set_config
    cs_pc,                \* "input" | "written"
    cs_model,             \* what model_config.json holds for model_name
    registration_params,  \* model_config[model_name]["registration_params"]
    model_snapshot,       \* the values written into the model_snapshot line
    \* ---- Spec: generate.run_script, run after run
    pc,               \* position of the current run of run_script
    exit_site,        \* the function that ended the run abnormally
    runs,             \* runs started so far
    in_catalog,       \* model_name is a key of model_config.json
    remote_files,     \* the hub's file listing at the resolved commit
    download_model,   \* gen_model.download_model (no --skip_download)
    repo_id_given,    \* --repo_id was supplied
    is_custom,        \* gen_model.is_custom
    mp_exists,        \* model_path exists
    mp_files,         \* relative paths of the files under model_path
    mo_exists,        \* mar_output exists
    mo_entries,       \* os.listdir(mar_output)
    mar_state,        \* the archive: "none", "complete" or "partial"
    mar_gen,          \* times an archiver has (re)written the archive
    cfg_lines,        \* model_snapshot lines of config.properties, -1: no file
    dl_calls,         \* snapshot_download calls of the current run
    arch_calls,       \* archiver invocations of the current run
    prev_ok_dl,       \* the previous run returned True with download enabled
    start,            \* the filesystem as the current run found it
    catalog_repo_id,  \* models[model_name]["repo_id"], NoRepo when not a key
    repo_id,          \* gen_model.repo_info.repo_id
    repo_version,     \* gen_model.repo_info.repo_version
    hf_token,         \* gen_model.repo_info.hf_token
    params_repo_version,  \* params.repo_version, as given on the command line
    handler_isfile,   \* the handler path read_config_for_download settles
                      \* on (given, catalog's or default) is an existing file
    model_path,       \* gen_model.mar_utils.model_path
    mar_output,       \* gen_model.mar_utils.mar_output
    hub_log,          \* hub lookups and listings of the current run
    arch_args,        \* what the archiver of the current run was invoked with
    cfg_last,         \* the model_snapshot line the current run appended
    exit_cause,       \* the check that ended the run with sys.exit(1)
    \* ---- CleanupSpec: cleanup.kubernetes(deploy_name)
    cl_pc,            \* position in kubernetes(deploy_name)
    cl_script,        \* the cleanup script that is run
    cluster,          \* resources named deploy_name the cluster holds
    cl_runs,          \* cleanups started so far
    cl_log            \* delete calls of the current cleanup and how they ended

verify_vars == <<v_pc, v_local, v_remote, v_result>>

health_vars == <<hc_pc, model_timeout, retry_count, success, hc_log>>

mars_vars == <<m_pc, r_pc, a_status, a_opened, mar_file, stop_monitoring,
               current_file_size, previous_file_size, progress_n,
               approx_marfile_size>>

fs_vars == <<mp_exists, mp_files, mo_exists, mo_entries, mar_state, mar_gen,
             cfg_lines>>

run_vars == <<pc, exit_site, runs, in_catalog, remote_files, download_model,
              repo_id_given, is_custom, dl_calls, arch_calls, prev_ok_dl,
              start>>

resolve_vars == <<catalog_repo_id, repo_id, repo_version, hf_token,
                  params_repo_version, handler_isfile, model_path, mar_output,
                  hub_log, arch_args, cfg_last, exit_cause>>

pipeline_vars == <<fs_vars, run_vars, resolve_vars>>

deploy_vars == <<d_pc, mem, nfs, mount_isdir, d_in_catalog, d_calls,
                 d_requested, model_info, d_hub_log, d_version_dir, d_exit_cause, d_failed,
                 storageuri, input_path, model_inputs, is_success,
                 infer_log>>

config_vars == <<cs_pc, cs_model, registration_params, model_snapshot>>

cleanup_vars == <<cl_pc, cl_script, cluster, cl_runs, cl_log>>

vars == <<verify_vars, health_vars, mars_vars, pipeline_vars, deploy_vars,
          config_vars, cleanup_vars>>

----------------------------------------------------------------------------
(* File names.  A name is a sequence of tokens; a token stands for a run   *)
(* of characters, so that "name ends with extension" is a suffix test on   *)
(* sequences, as re.search(ext + "$", name) and fnmatch("*" + ext) are on  *)
(* characters.                                                             *)

ConfigJson == <<"config", ".json">>
PytorchBin == <<"pytorch_model", ".bin">>
ModelSafetensors == <<"model", ".safetensors">>
SafetensorsIndex == <<"model", ".safetensors", ".index", ".json">>

\* The files a repository or a model directory of the model may hold.
Files == {ConfigJson, PytorchBin, ModelSafetensors, SafetensorsIndex}

FILE_EXTENSIONS_TO_IGNORE ==
    << <<".safetensors">>,
       <<".safetensors", ".index", ".json">>,
       <<".h5">>,
       <<".ot">>,
       <<".tflite">>,
       <<".msgpack">>,
       <<".onnx">> >>

\* Longest listing drawn as an input of the verification functions.
MaxListLen == 3

\* name ends with suffix (regex  suffix$  /  glob  *suffix)
EndsWith(name, suffix) ==
    /\ Len(suffix) <= Len(name)
    /\ \A i \in 1..Len(suffix) :
          name[Len(name) - Len(suffix) + i] = suffix[i]

\* re.search(pattern, filename) with pattern "ext1$|ext2$|..."
MatchesAnySuffix(filename, extensions) ==
    \E k \in 1..Len(extensions) : EndsWith(filename, extensions[k])

filter_files_by_extension_first_only(filenames, extensions_to_remove) ==
    SelectSeq(filenames,
              LAMBDA f : ~EndsWith(f, extensions_to_remove[1]))

filter_files_by_extension(filenames, extensions_to_remove) ==
    SelectSeq(filenames,
              LAMBDA f : ~MatchesAnySuffix(f, extensions_to_remove))

\* Counter(list)[x]
Count(x, list) == Cardinality({i \in 1..Len(list) : list[i] = x})

Elems(list) == {list[i] : i \in 1..Len(list)}

compare_lists_as_sets(list1, list2) == Elems(list1) = Elems(list2)

compare_lists_ordered(list1, list2) == list1 = list2

\* Counter(list1) == Counter(list2)
compare_lists(list1, list2) ==
    \A x \in Elems(list1) \cup Elems(list2) : Count(x, list1) = Count(x, list2)

\* extra_files_list is the listing of model_path, repo_files the hub's.
check_if_model_files_exist(extra_files_list, repo_files) ==
    compare_lists(extra_files_list,
                  filter_files_by_extension(repo_files,
                                            FILE_EXTENSIONS_TO_IGNORE))

----------------------------------------------------------------------------
(* VerifySpec: the verification functions applied to bounded listings.     *)

BoundedSeq(S, n) == UNION {[1..m -> S] : m \in 0..n}

NoDup(list) == \A i, j \in 1..Len(list) : list[i] = list[j] => i = j

VerifyInputs ==
    /\ v_pc = "input"
    /\ v_local \in BoundedSeq(Files, MaxListLen)
    /\ v_remote \in BoundedSeq(Files, MaxListLen)
    /\ v_result = FALSE

\* the verification functions are not being exercised
VerifyIdle ==
    /\ v_pc = "off"
    /\ v_local = <<>>
    /\ v_remote = <<>>
    /\ v_result = FALSE

\* compare_lists(v_local, v_remote), on any two lists
CompareLists ==
    /\ v_pc = "input"
    /\ v_result' = compare_lists(v_local, v_remote)
    /\ v_pc' = "compared"
    /\ UNCHANGED <<v_local, v_remote, health_vars, mars_vars, pipeline_vars, deploy_vars,
                   config_vars, cleanup_vars>>

\* check_if_model_files_exist on a directory listing and a hub listing:
\* neither a directory walk nor the hub's file list repeats a path.
CheckModelFiles ==
    /\ v_pc = "input"
    /\ NoDup(v_local)
    /\ NoDup(v_remote)
    /\ v_result' = check_if_model_files_exist(v_local, v_remote)
    /\ v_pc' = "verified"
    /\ UNCHANGED <<v_local, v_remote, health_vars, mars_vars, pipeline_vars, deploy_vars,
                   config_vars, cleanup_vars>>

VerifyNext == CompareLists \/ CheckModelFiles

----------------------------------------------------------------------------
(* HealthSpec: health_check(model_name, deploy_name, model_timeout).       *)
(* Each attempt is execute_inference_on_inputs([sample], retry=True): it   *)
(* returns True on HTTP 200, False on any other response, and lets an      *)
(* error of the cluster client or of the HTTP request propagate.           *)

\* Largest budget drawn for model_timeout, in seconds.
MaxTimeout == 100

sleep_time == 30

AttemptOutcomes == {"200", "non200", "error"}

IsAttempt(e) == e \in AttemptOutcomes

Attempts(log) == Cardinality({i \in 1..Len(log) : IsAttempt(log[i])})

HealthIdle ==
    /\ hc_pc = "off"
    /\ model_timeout = 0
    /\ retry_count = 0
    /\ success = FALSE
    /\ hc_log = <<>>

\* retry_count = 0; sleep_time = 30; success = False
HealthInit ==
    /\ hc_pc = "loop"
    /\ model_timeout \in 0..MaxTimeout
    /\ retry_count = 0
    /\ success = FALSE
    /\ hc_log = <<>>

health_loop_condition_inclusive(ok, retries, timeout) ==
    ~ok /\ retries * sleep_time <= timeout

health_loop_condition_ignores_success(ok, retries, timeout) ==
    retries * sleep_time < timeout

\* while not success and retry_count * sleep_time < model_timeout
health_loop_condition(ok, retries, timeout) ==
    ~ok /\ retries * sleep_time < timeout

\* the while test, and the if/else after the loop
HealthLoopTest ==
    /\ hc_pc = "loop"
    /\ hc_pc' = IF health_loop_condition(success, retry_count, model_timeout)
                THEN "attempt"
                ELSE IF success THEN "returned" ELSE "exit1"
    /\ UNCHANGED <<model_timeout, retry_count, success, hc_log, verify_vars, mars_vars,
                   pipeline_vars, deploy_vars,
                   config_vars, cleanup_vars>>

\* success = execute_inference_on_inputs([model_input], ..., retry=True)
HealthAttempt ==
    /\ hc_pc = "attempt"
    /\ \E outcome \in AttemptOutcomes :
          /\ hc_log' = Append(hc_log, outcome)
          /\ IF outcome = "error"
             THEN \* uncaught exception: traceback, exit status 1
                  /\ hc_pc' = "uncaught"
                  /\ UNCHANGED success
             ELSE /\ success' = (outcome = "200")
                  /\ hc_pc' = IF outcome = "200" THEN "loop" ELSE "sleep"
    /\ UNCHANGED <<model_timeout, retry_count, verify_vars, mars_vars,
                   pipeline_vars, deploy_vars,
                   config_vars, cleanup_vars>>

\* if not success: time.sleep(sleep_time); retry_count += 1
HealthSleep ==
    /\ hc_pc = "sleep"
    /\ hc_log' = Append(hc_log, "sleep")
    /\ retry_count' = retry_count + 1
    /\ hc_pc' = "loop"
    /\ UNCHANGED <<model_timeout, success, verify_vars, mars_vars,
                   pipeline_vars, deploy_vars,
                   config_vars, cleanup_vars>>

HealthNext == HealthLoopTest \/ HealthAttempt \/ HealthSleep

----------------------------------------------------------------------------
(* MarsSpec: the try block of generate_mars.  The main thread starts the   *)
(* reporter thread, runs the archiver with subprocess.check_call, then     *)
(* sets the stop event and joins the reporter; on CalledProcessError it    *)
(* calls sys.exit(1).  The reporter is a non-daemon thread, so the         *)
(* interpreter ends only once it has finished.                             *)

\* Largest size the archive file grows to.
MaxMarSize == 2

MarsIdle ==
    /\ m_pc = "off"
    /\ r_pc = "off"
    /\ a_status = "idle"
    /\ a_opened = FALSE
    /\ mar_file = -1
    /\ stop_monitoring = FALSE
    /\ current_file_size = -1
    /\ previous_file_size = 0
    /\ progress_n = 0
    /\ approx_marfile_size = 0

\* on entry of the try block: the export directory holds no archive, or one
\* that --force will overwrite
MarsInit ==
    /\ m_pc = "thread_start"
    /\ r_pc = "not_started"
    /\ a_status = "idle"
    /\ a_opened = FALSE
    /\ mar_file \in -1..MaxMarSize
    /\ stop_monitoring = FALSE
    /\ current_file_size = -1
    /\ previous_file_size = 0
    /\ progress_n = 0
    /\ approx_marfile_size \in 0..MaxMarSize

reporter_unch == <<r_pc, current_file_size, previous_file_size, progress_n>>

archiver_unch == <<a_status, a_opened, mar_file>>

\* mar_size_thread.start(); subprocess.check_call(cmd, shell=True) begins
MainStartThread ==
    /\ m_pc = "thread_start"
    /\ r_pc' = "init"
    /\ a_status' = "running"
    /\ m_pc' = "check_call"
    /\ UNCHANGED <<a_opened, mar_file, stop_monitoring, current_file_size,
                   previous_file_size, progress_n, approx_marfile_size,
                   verify_vars, health_vars, pipeline_vars, deploy_vars,
                   config_vars, cleanup_vars>>

\* the archiver creates (or, with --force, truncates) {model_name}.mar
ArchiverOpen ==
    /\ a_status = "running"
    /\ ~a_opened
    /\ a_opened' = TRUE
    /\ mar_file' = 0
    /\ UNCHANGED <<m_pc, a_status, stop_monitoring, reporter_unch,
                   approx_marfile_size, verify_vars, health_vars, pipeline_vars, deploy_vars,
                   config_vars, cleanup_vars>>

\* the archiver writes its output incrementally
ArchiverWrite ==
    /\ a_status = "running"
    /\ a_opened
    /\ mar_file < MaxMarSize
    /\ mar_file' = mar_file + 1
    /\ UNCHANGED <<m_pc, a_status, a_opened, stop_monitoring, reporter_unch,
                   approx_marfile_size, verify_vars, health_vars, pipeline_vars, deploy_vars,
                   config_vars, cleanup_vars>>

\* the archiver ends: exit status 0 once the archive is written, or a
\* non-zero status at any point, leaving what it wrote
ArchiverExit ==
    /\ a_status = "running"
    /\ \/ a_opened /\ a_status' = "ok"
       \/ a_status' = "failed"
    /\ UNCHANGED <<m_pc, a_opened, mar_file, stop_monitoring, reporter_unch,
                   approx_marfile_size, verify_vars, health_vars, pipeline_vars, deploy_vars,
                   config_vars, cleanup_vars>>

\* check_call returns on status 0 and raises CalledProcessError otherwise;
\* the except clause prints and calls sys.exit(1)
main_after_check_call(status) ==
    IF status = "ok" THEN "set_stop" ELSE "sys_exit"

MainCheckCallEnds ==
    /\ m_pc = "check_call"
    /\ a_status \in {"ok", "failed"}
    /\ m_pc' = main_after_check_call(a_status)
    /\ UNCHANGED <<archiver_unch, stop_monitoring, reporter_unch,
                   approx_marfile_size, verify_vars, health_vars, pipeline_vars, deploy_vars,
                   config_vars, cleanup_vars>>

\* stop_monitoring.set()
MainSetStop ==
    /\ m_pc = "set_stop"
    /\ stop_monitoring' = TRUE
    /\ m_pc' = "join"
    /\ UNCHANGED <<archiver_unch, reporter_unch, approx_marfile_size,
                   verify_vars, health_vars, pipeline_vars, deploy_vars,
                   config_vars, cleanup_vars>>

\* mar_size_thread.join() on the success path; on the sys.exit(1) path the
\* interpreter's shutdown waits for the non-daemon reporter in the same way
MainWaitsForReporter ==
    /\ m_pc \in {"join", "sys_exit"}
    /\ r_pc \in {"finished", "error"}
    /\ m_pc' = IF m_pc = "join" THEN "done" ELSE "exited1"
    /\ UNCHANGED <<archiver_unch, stop_monitoring, reporter_unch,
                   approx_marfile_size, verify_vars, health_vars, pipeline_vars, deploy_vars,
                   config_vars, cleanup_vars>>

\* previous_file_size = 0; progress_bar = tqdm.tqdm(total=approx...)
ReporterInit ==
    /\ r_pc = "init"
    /\ previous_file_size' = 0
    /\ progress_n' = 0
    /\ r_pc' = "loop_test"
    /\ UNCHANGED <<m_pc, archiver_unch, stop_monitoring, current_file_size,
                   approx_marfile_size, verify_vars, health_vars, pipeline_vars, deploy_vars,
                   config_vars, cleanup_vars>>

\* while not stop_monitoring.is_set()
ReporterLoopTest ==
    /\ r_pc = "loop_test"
    /\ r_pc' = IF stop_monitoring THEN "reconcile" ELSE "poll"
    /\ UNCHANGED <<m_pc, archiver_unch, stop_monitoring, current_file_size,
                   previous_file_size, progress_n, approx_marfile_size,
                   verify_vars, health_vars, pipeline_vars, deploy_vars,
                   config_vars, cleanup_vars>>

\* os.path.getsize(file_path), 0 on FileNotFoundError
getsize_or_zero(size) == IF size = -1 THEN 0 ELSE size

\* one pass of the loop body: sample the size, advance the bar, sleep 2 s
ReporterPoll ==
    /\ r_pc = "poll"
    /\ current_file_size' = getsize_or_zero(mar_file)
    /\ progress_n' = progress_n + (getsize_or_zero(mar_file) - previous_file_size)
    /\ previous_file_size' = getsize_or_zero(mar_file)
    /\ r_pc' = "loop_test"
    /\ UNCHANGED <<m_pc, archiver_unch, stop_monitoring, approx_marfile_size,
                   verify_vars, health_vars, pipeline_vars, deploy_vars,
                   config_vars, cleanup_vars>>

\* progress_bar.update(approx_marfile_size - current_file_size); close;
\* print the size from os.path.getsize(file_path).  An unbound
\* current_file_size or a missing file raises in the thread.
ReporterReconcile ==
    /\ r_pc = "reconcile"
    /\ IF current_file_size = -1
       THEN /\ r_pc' = "error"
            /\ UNCHANGED progress_n
       ELSE /\ progress_n' = progress_n
                              + (approx_marfile_size - current_file_size)
            /\ r_pc' = IF mar_file = -1 THEN "error" ELSE "finished"
    /\ UNCHANGED <<m_pc, archiver_unch, stop_monitoring, current_file_size,
                   previous_file_size, approx_marfile_size,
                   verify_vars, health_vars, pipeline_vars, deploy_vars,
                   config_vars, cleanup_vars>>

MarsNext ==
    \/ MainStartThread
    \/ ArchiverOpen
    \/ ArchiverWrite
    \/ ArchiverExit
    \/ MainCheckCallEnds
    \/ MainSetStop
    \/ MainWaitsForReporter
    \/ ReporterInit
    \/ ReporterLoopTest
    \/ ReporterPoll
    \/ ReporterReconcile

----------------------------------------------------------------------------
(* The model hub, the command line and the paths of a model, as           *)
(* generate.py and kubeflow_inference_run.py both use them.  A repository *)
(* id, a revision and a commit id are sequences of tokens, so that        *)
(* startswith and the match of a short hash are prefix tests.             *)

\* repository ids: one outside the gated namespace, one inside it, one the
\* hub does not know; NoRepo is the empty --repo_id
NoRepo == <<>>
OpenRepo == <<"gpt2">>
GatedRepo == <<"meta-llama", "/", "Llama-2-7b-hf">>
UnknownRepo == <<"org", "/", "nothing">>

HubRepos == {OpenRepo, GatedRepo}

\* hf_token is None, or a token
NoToken == "None"
SomeToken == "hf_token"

\* commit ids of the repository, most recent first, as the hub lists them
HeadCommit == <<"11c5a3d581", "1f50298f27">>
OldCommit == <<"e7da7f221d", "5bf496a481">>
HubHistory == <<HeadCommit, OldCommit>>

\* revisions given on the command line: none, a short hash and the full
\* hash of the head commit, and a revision the hub does not know
NoVersion == <<>>
ShortHash == <<"11c5a3d581">>
BogusRevision == <<"wrong_repo_version">>
RequestedVersions == {NoVersion, ShortHash, HeadCommit, BogusRevision}

\* models[model_name]["repo_version"] of the catalog entry
CatalogVersion == HeadCommit

\* repo_version = "1.0" of a custom model without download
PlaceholderVersion == <<"1.0">>

\* str.startswith
StartsWith(text, prefix) ==
    /\ Len(prefix) <= Len(text)
    /\ SubSeq(text, 1, Len(prefix)) = prefix

hf_token_check_never_exits(rid, token) == FALSE

\* hf_token_check calls sys.exit(1):
\* repo_id.startswith("meta-llama") and token is None
hf_token_check_exits(rid, token) ==
    StartsWith(rid, <<"meta-llama">>) /\ token = NoToken

\* hf_api.list_repo_commits(repo_id, revision, token): the history from the
\* commit the revision names, <<>> standing for the error raised on an
\* unknown repository, a gated one read without token, an unknown revision
list_repo_commits(rid, revision, token) ==
    IF rid \notin HubRepos THEN <<>>
    ELSE IF StartsWith(rid, <<"meta-llama">>) /\ token = NoToken THEN <<>>
    ELSE IF revision = NoVersion THEN HubHistory
    ELSE LET hits == {i \in 1..Len(HubHistory) :
                         StartsWith(HubHistory[i], revision)}
         IN  IF hits = {} THEN <<>>
             ELSE SubSeq(HubHistory,
                         CHOOSE i \in hits : \A j \in hits : i <= j,
                         Len(HubHistory))

get_repo_commit_id_echo(rid, revision, token, hub_ok) ==
    LET commit_info == IF hub_ok THEN list_repo_commits(rid, revision, token)
                       ELSE <<>>
    IN  [exit |-> commit_info = <<>>, commit_id |-> revision]

get_repo_commit_id_oldest(rid, revision, token, hub_ok) ==
    LET commit_info == IF hub_ok THEN list_repo_commits(rid, revision, token)
                       ELSE <<>>
    IN  IF commit_info = <<>>
        THEN [exit |-> TRUE, commit_id |-> revision]
        ELSE [exit |-> FALSE, commit_id |-> commit_info[Len(commit_info)]]

get_repo_commit_id_unchecked(rid, revision, token, hub_ok) ==
    LET commit_info == IF hub_ok THEN list_repo_commits(rid, revision, token)
                       ELSE <<>>
    IN  IF commit_info = <<>>
        THEN [exit |-> FALSE, commit_id |-> revision]
        ELSE [exit |-> FALSE, commit_id |-> commit_info[1]]

\* get_repo_commit_id: commit_info[0].commit_id, sys.exit(1) on an error of
\* the hub (hub_ok = FALSE: the request itself failed)
get_repo_commit_id(rid, revision, token, hub_ok) ==
    LET commit_info == IF hub_ok THEN list_repo_commits(rid, revision, token)
                       ELSE <<>>
    IN  IF commit_info = <<>>
        THEN [exit |-> TRUE, commit_id |-> revision]
        ELSE [exit |-> FALSE, commit_id |-> commit_info[1]]

\* if not repo_version: repo_version = <default>
version_or_default(requested, default) ==
    IF requested = NoVersion THEN default ELSE requested

\* read_config_for_download(gen_model): the values it leaves in gen_model,
\* the hub calls it made and the check that called sys.exit(1), if any
read_config_for_download(in_cat, cat_repo, download, rid, requested, token, handler_ok, hub_ok) ==
    IF in_cat
    THEN LET rev == version_or_default(requested, CatalogVersion)
             looked == get_repo_commit_id(cat_repo, rev, token, hub_ok)
         IN  IF hf_token_check_exits(cat_repo, token)
             THEN [exit |-> "token", repo_id |-> cat_repo,
                   repo_version |-> requested, is_custom |-> FALSE,
                   hub |-> <<>>]
             ELSE IF looked.exit
             THEN [exit |-> "commit_lookup", repo_id |-> cat_repo,
                   repo_version |-> rev, is_custom |-> FALSE,
                   hub |-> <<"list_repo_commits">>]
             ELSE [exit |-> IF handler_ok THEN "none" ELSE "handler",
                   repo_id |-> cat_repo, repo_version |-> looked.commit_id,
                   is_custom |-> FALSE, hub |-> <<"list_repo_commits">>]
    ELSE IF ~download
    THEN [exit |-> "none", repo_id |-> rid,
          repo_version |-> version_or_default(requested, PlaceholderVersion),
          is_custom |-> TRUE, hub |-> <<>>]
    ELSE IF rid # NoRepo
    THEN LET looked == get_repo_commit_id(rid, requested, token, hub_ok)
         IN  IF hf_token_check_exits(rid, token)
             THEN [exit |-> "token", repo_id |-> rid,
                   repo_version |-> requested, is_custom |-> FALSE,
                   hub |-> <<>>]
             ELSE IF looked.exit
             THEN [exit |-> "commit_lookup", repo_id |-> rid,
                   repo_version |-> requested, is_custom |-> FALSE,
                   hub |-> <<"list_repo_commits">>]
             ELSE [exit |-> "none", repo_id |-> rid,
                   repo_version |-> looked.commit_id, is_custom |-> TRUE,
                   hub |-> <<"list_repo_commits">>]
    ELSE [exit |-> "unknown_model", repo_id |-> rid,
          repo_version |-> requested, is_custom |-> FALSE, hub |-> <<>>]

\* paths: sequences of components
OUTPUT == "output"
MODEL_NAME == "model"
MODEL_STORE_DIR == "model-store"
MODEL_FILES_LOCATION == "download"
PARAMS_MODEL_PATH == <<"params.model_path">>
NoPath == <<>>

\* set_model_files_and_mar(params)
set_model_files_and_mar(custom, version) ==
    IF custom
    THEN [model_path |-> PARAMS_MODEL_PATH,
          mar_output |-> <<OUTPUT, MODEL_NAME, MODEL_STORE_DIR>>]
    ELSE [model_path |-> <<OUTPUT, MODEL_NAME, version, MODEL_FILES_LOCATION>>,
          mar_output |-> <<OUTPUT, MODEL_NAME, version, MODEL_STORE_DIR>>]

----------------------------------------------------------------------------
(* DeploySpec: kubeflow_inference_run.execute(params) from its first       *)
(* statement to its last: the checks of the command line, the cluster      *)
(* calls, health_check (the actions of HealthSpec) and the validation      *)
(* pass.  A string is a sequence of characters, so that                    *)
(* unit in params.mem  is a substring test.                                *)

\* Longest memory string drawn for params.mem.
MaxMemLen == 3

\* the characters memory strings are made of
MemChars == {"4", "G", "M", "i", "b"}

kubMemUnits ==
    << <<"E", "i">>, <<"P", "i">>, <<"T", "i">>,
       <<"G", "i">>, <<"M", "i">>, <<"K", "i">> >>

\* what params.nfs.split(":") may return: <address>:<share_path>, a string
\* with an empty side, with no colon, with two colons
NfsForms ==
    { <<"10.0.0.1", "/share">>, <<"10.0.0.1", "">>, <<"", "/share">>,
      <<"10.0.0.1">>, <<"10.0.0.1", "/share", "x">> }

\* Python's  sub in text  on strings
Contains(text, sub) ==
    \E i \in 1..(Len(text) - Len(sub) + 1) :
        SubSeq(text, i, i + Len(sub) - 1) = sub

mem_unit_recognized_unchecked(m) == TRUE

\* any(unit in params.mem for unit in kubMemUnits)
mem_unit_recognized(m) ==
    \E k \in 1..Len(kubMemUnits) : Contains(m, kubMemUnits[k])

\* Longest listing of the directory given as params.data.
MaxInputs == 2

\* budgets given as params.model_timeout
DeployTimeouts == {0, sleep_time, MaxTimeout}

\* params.deploy_name and params.mount_path
DEPLOY_NAME == "deploy"
MOUNT_PATH == "mount"

\* model_info = {} before execute fills it
NoModelInfo ==
    [repo_id |-> NoRepo, repo_version |-> NoVersion, hf_token |-> NoToken]

\* os.path.join(mount_path, model_info["model_name"], repo_version)
model_spec_path(version) == <<MOUNT_PATH, MODEL_NAME, version>>

check_if_valid_version_path_unchecked(info, hub_ok, path_exists) ==
    LET looked == get_repo_commit_id(info.repo_id, info.repo_version,
                                     info.hf_token, hub_ok)
    IN  IF hf_token_check_exits(info.repo_id, info.hf_token)
        THEN [exit |-> "token", repo_version |-> info.repo_version,
              hub |-> <<>>, version_dir |-> "unchecked"]
        ELSE IF looked.exit
        THEN [exit |-> "commit_lookup", repo_version |-> info.repo_version,
              hub |-> <<"list_repo_commits">>, version_dir |-> "unchecked"]
        ELSE [exit |-> "none", repo_version |-> looked.commit_id,
              hub |-> <<"list_repo_commits">>,
              version_dir |-> IF path_exists THEN "exists" ELSE "missing"]

\* check_if_valid_version(model_info, mount_path): the token check, the
\* commit lookup, os.path.exists(model_spec_path); what it returns, the hub
\* calls it made and the check that called sys.exit(1), if any
check_if_valid_version(info, hub_ok, path_exists) ==
    LET looked == get_repo_commit_id(info.repo_id, info.repo_version,
                                     info.hf_token, hub_ok)
    IN  IF hf_token_check_exits(info.repo_id, info.hf_token)
        THEN [exit |-> "token", repo_version |-> info.repo_version,
              hub |-> <<>>, version_dir |-> "unchecked"]
        ELSE IF looked.exit
        THEN [exit |-> "commit_lookup", repo_version |-> info.repo_version,
              hub |-> <<"list_repo_commits">>, version_dir |-> "unchecked"]
        ELSE IF ~path_exists
        THEN [exit |-> "version_dir", repo_version |-> looked.commit_id,
              hub |-> <<"list_repo_commits">>, version_dir |-> "missing"]
        ELSE [exit |-> "none", repo_version |-> looked.commit_id,
              hub |-> <<"list_repo_commits">>, version_dir |-> "exists"]

create_isvc_storageuri_always_versioned(custom, deploy_name, info) ==
    <<"pvc://", deploy_name, MODEL_NAME, info.repo_version>>

\* create_isvc: pvc://{deploy_name}/{model_name}[/{repo_version}], as the
\* sequence of its components
create_isvc_storageuri(custom, deploy_name, info) ==
    IF custom
    THEN <<"pvc://", deploy_name, MODEL_NAME>>
    ELSE <<"pvc://", deploy_name, MODEL_NAME, info.repo_version>>

after_call_error_swallowed(call, ok) ==
    CASE call = "create_persistent_volume" -> "create_pvc"
      [] call = "create_namespaced_persistent_volume_claim" -> "create_isvc"
      [] call = "kserve_create" -> "health_check"

\* the statement of execute that follows a cluster call: the next call, or
\* none when the call raised (execute has no except clause)
after_call(call, ok) ==
    IF ~ok THEN "uncaught"
    ELSE CASE call = "create_persistent_volume" -> "create_pvc"
           [] call = "create_namespaced_persistent_volume_claim"
                 -> "create_isvc"
           [] call = "kserve_create" -> "health_check"

on_response_always_continues(outcome, retry) ==
    IF outcome = "error" THEN "uncaught" ELSE "continue"

\* execute_inference_on_inputs, after run_inference_v2 for one input: an
\* error propagates; a response other than 200 is sys.exit(1) unless retry
on_response(outcome, retry) ==
    IF outcome = "error" THEN "uncaught"
    ELSE IF outcome = "200" THEN "continue"
    ELSE IF ~retry THEN "exit1"
    ELSE "continue"

\* execute is not running
DeployIdle ==
    /\ d_pc = "off"
    /\ mem = <<>>
    /\ nfs = <<>>
    /\ mount_isdir = FALSE
    /\ d_in_catalog = FALSE
    /\ d_calls = <<>>
    /\ d_requested = NoVersion
    /\ model_info = NoModelInfo
    /\ d_hub_log = <<>>
    /\ d_version_dir = "unchecked"
    /\ d_exit_cause = "none"
    /\ d_failed = "none"
    /\ storageuri = <<>>
    /\ input_path = "unread"
    /\ model_inputs = <<>>
    /\ is_success = "unbound"
    /\ infer_log = <<>>

\* the command line of kubeflow_inference_run.py and the machine it runs on
DeployInit ==
    /\ d_pc = "mem_check"
    /\ mem \in BoundedSeq(MemChars, MaxMemLen)
    /\ nfs \in NfsForms
    /\ mount_isdir \in BOOLEAN
    /\ d_in_catalog \in BOOLEAN
    /\ d_calls = <<>>
    /\ d_requested = NoVersion
    /\ model_info = NoModelInfo
    /\ d_hub_log = <<>>
    /\ d_version_dir = "unchecked"
    /\ d_exit_cause = "none"
    /\ d_failed = "none"
    /\ storageuri = <<>>
    /\ input_path = "unread"
    /\ model_inputs = <<>>
    /\ is_success = "unbound"
    /\ infer_log = <<>>

deploy_unch ==
    <<mem, nfs, mount_isdir, d_in_catalog, verify_vars, health_vars,
      mars_vars, pipeline_vars, config_vars, cleanup_vars>>

\* what the statements after model_info is filled leave alone
resolution_unch == <<d_requested, d_hub_log, d_version_dir>>

\* what the statements before the cluster calls leave alone
rollout_unch == <<d_calls, d_failed, storageuri>>

\* what the statements before the validation pass leave alone
validation_unch == <<input_path, model_inputs, is_success, infer_log>>

\* if not any(unit in params.mem for unit in kubMemUnits): sys.exit(1)
ExecuteMemCheck ==
    /\ d_pc = "mem_check"
    /\ d_pc' = IF mem_unit_recognized(mem) THEN "split_nfs" ELSE "exit1"
    /\ d_exit_cause' = IF mem_unit_recognized(mem) THEN "none" ELSE "mem"
    /\ UNCHANGED <<model_info, resolution_unch, rollout_unch, validation_unch,
                   deploy_unch>>

\* nfs_server, nfs_path = params.nfs.split(":"): a ValueError, uncaught,
\* unless the string has exactly one colon; then model_info takes
\* params.repo_version and params.hf_token
ExecuteSplitNfs ==
    /\ d_pc = "split_nfs"
    /\ IF Len(nfs) = 2
       THEN /\ d_pc' = "check_mount"
            /\ \E requested \in RequestedVersions,
                  token \in {NoToken, SomeToken} :
                  /\ d_requested' = requested
                  /\ model_info' = [repo_id |-> NoRepo,
                                    repo_version |-> requested,
                                    hf_token |-> token]
       ELSE /\ d_pc' = "uncaught"
            /\ UNCHANGED <<d_requested, model_info>>
    /\ UNCHANGED <<d_exit_cause, d_hub_log, d_version_dir, rollout_unch,
                   validation_unch, deploy_unch>>

\* check_if_path_exists(mount_path, "local nfs mount", is_dir=True)
ExecuteCheckMount ==
    /\ d_pc = "check_mount"
    /\ d_pc' = IF mount_isdir THEN "check_nfs" ELSE "exit1"
    /\ d_exit_cause' = IF mount_isdir THEN "none" ELSE "mount"
    /\ UNCHANGED <<model_info, resolution_unch, rollout_unch, validation_unch,
                   deploy_unch>>

\* if not nfs_path or not nfs_server: sys.exit(1)
ExecuteCheckNfs ==
    /\ d_pc = "check_nfs"
    /\ d_pc' = IF nfs[1] = "" \/ nfs[2] = "" THEN "exit1" ELSE "check_version"
    /\ d_exit_cause' = IF nfs[1] = "" \/ nfs[2] = "" THEN "nfs" ELSE "none"
    /\ UNCHANGED <<model_info, resolution_unch, rollout_unch, validation_unch,
                   deploy_unch>>

\* model_params = ts.get_model_params(model_name); for a catalog model the
\* catalog's version where none was given, the catalog's repo_id, and
\* check_if_valid_version
ExecuteCheckVersion ==
    /\ d_pc = "check_version"
    /\ IF d_in_catalog
       THEN \E cat_repo \in HubRepos, hub_ok \in BOOLEAN,
               path_exists \in BOOLEAN :
               LET info == [repo_id |-> cat_repo,
                            repo_version |->
                                version_or_default(model_info.repo_version,
                                                   CatalogVersion),
                            hf_token |-> model_info.hf_token]
                   checked == check_if_valid_version(info, hub_ok,
                                                     path_exists)
               IN  /\ model_info' =
                          [info EXCEPT !.repo_version = checked.repo_version]
                   /\ d_hub_log' = checked.hub
                   /\ d_version_dir' = checked.version_dir
                   /\ d_exit_cause' = checked.exit
                   /\ d_pc' = IF checked.exit = "none" THEN "create_pv"
                              ELSE "exit1"
       ELSE /\ d_pc' = "create_pv"
            /\ UNCHANGED <<model_info, d_hub_log, d_version_dir,
                           d_exit_cause>>
    /\ UNCHANGED <<d_requested, rollout_unch, validation_unch, deploy_unch>>

\* create_pv(core_api, deploy_name, storage, nfs_server, nfs_path); an
\* error of the cluster API propagates uncaught
CreatePv ==
    /\ d_pc = "create_pv"
    /\ d_calls' = Append(d_calls, "create_persistent_volume")
    /\ \E ok \in BOOLEAN :
          /\ d_pc' = after_call("create_persistent_volume", ok)
          /\ d_failed' = IF ok THEN d_failed ELSE "create_persistent_volume"
    /\ UNCHANGED <<model_info, d_exit_cause, resolution_unch, storageuri,
                   validation_unch, deploy_unch>>

\* create_pvc(core_api, deploy_name, storage)
CreatePvc ==
    /\ d_pc = "create_pvc"
    /\ d_calls' = Append(d_calls, "create_namespaced_persistent_volume_claim")
    /\ \E ok \in BOOLEAN :
          /\ d_pc' = after_call("create_namespaced_persistent_volume_claim",
                                ok)
          /\ d_failed' = IF ok THEN d_failed
                         ELSE "create_namespaced_persistent_volume_claim"
    /\ UNCHANGED <<model_info, d_exit_cause, resolution_unch, storageuri,
                   validation_unch, deploy_unch>>

\* create_isvc(deploy_name, model_info, deployment_resources, model_params):
\* the storage URI, then kserve.create(isvc, watch=True)
CreateIsvc ==
    /\ d_pc = "create_isvc"
    /\ storageuri' = create_isvc_storageuri(~d_in_catalog, DEPLOY_NAME,
                                            model_info)
    /\ d_calls' = Append(d_calls, "kserve_create")
    /\ \E ok \in BOOLEAN :
          /\ d_pc' = after_call("kserve_create", ok)
          /\ d_failed' = IF ok THEN d_failed ELSE "kserve_create"
    /\ UNCHANGED <<model_info, d_exit_cause, resolution_unch, validation_unch,
                   deploy_unch>>

\* health_check(model_info["model_name"], deploy_name, model_timeout): the
\* call, up to the while statement; HealthLoopTest, HealthAttempt and
\* HealthSleep are its body
CallHealthCheck ==
    /\ d_pc = "health_check"
    /\ d_pc' = "in_health_check"
    /\ hc_pc' = "loop"
    /\ model_timeout' \in DeployTimeouts
    /\ retry_count' = 0
    /\ success' = FALSE
    /\ hc_log' = <<>>
    /\ UNCHANGED <<model_info, d_exit_cause, resolution_unch, rollout_unch,
                   validation_unch, mem, nfs, mount_isdir, d_in_catalog,
                   verify_vars, mars_vars, pipeline_vars, config_vars,
                   cleanup_vars>>

\* health_check has returned; if input_path: check_if_path_exists(
\* input_path, "Input", is_dir=True); get_inputs_from_folder(input_path)
ExecuteValidation ==
    /\ d_pc = "in_health_check"
    /\ hc_pc = "returned"
    /\ \E given \in {"None", "missing", "dir"}, n \in 0..MaxInputs :
          /\ given # "dir" => n = 0
          /\ input_path' = given
          /\ model_inputs' = [i \in 1..n |-> i]
          /\ d_pc' = CASE given = "None" -> "done"
                       [] given = "missing" -> "exit1"
                       [] given = "dir" -> "infer"
          /\ d_exit_cause' = IF given = "missing" THEN "input_path"
                             ELSE "none"
    /\ UNCHANGED <<model_info, resolution_unch, rollout_unch, is_success,
                   infer_log, deploy_unch>>

\* execute_inference_on_inputs(model_inputs, ..., debug=True), one pass of
\* the for loop: the inference call for the next input and what follows
\* its response (retry is False)
InferOnInput ==
    /\ d_pc = "infer"
    /\ Len(infer_log) < Len(model_inputs)
    /\ \E outcome \in AttemptOutcomes :
          LET next == on_response(outcome, FALSE)
          IN  /\ infer_log' = Append(infer_log,
                                     [input |-> model_inputs[Len(infer_log) + 1],
                                      outcome |-> outcome])
              /\ is_success' = IF next = "continue" THEN "True"
                               ELSE is_success
              /\ d_pc' = IF next = "continue" THEN "infer" ELSE next
              /\ d_exit_cause' = IF next = "exit1" THEN "inference"
                                 ELSE "none"
    /\ UNCHANGED <<model_info, resolution_unch, rollout_unch, input_path,
                   model_inputs, deploy_unch>>

\* the for loop is over: return is_success, a local that is bound in the
\* loop body only
InferReturn ==
    /\ d_pc = "infer"
    /\ Len(infer_log) = Len(model_inputs)
    /\ d_pc' = IF is_success = "unbound" THEN "uncaught" ELSE "done"
    /\ UNCHANGED <<model_info, d_exit_cause, resolution_unch, rollout_unch,
                   validation_unch, deploy_unch>>

DeployNext ==
    \/ ExecuteMemCheck
    \/ ExecuteSplitNfs
    \/ ExecuteCheckMount
    \/ ExecuteCheckNfs
    \/ ExecuteCheckVersion
    \/ CreatePv
    \/ CreatePvc
    \/ CreateIsvc
    \/ CallHealthCheck
    \/ HealthLoopTest
    \/ HealthAttempt
    \/ HealthSleep
    \/ ExecuteValidation
    \/ InferOnInput
    \/ InferReturn

----------------------------------------------------------------------------
(* CleanupSpec: kubernetes(deploy_name) of llm/cleanup.py and of           *)
(* llm/utils/cleanup.py, run again and again for one deployment name on a  *)
(* cluster whose API answers.  A delete call for a resource the cluster    *)
(* does not hold raises: the kubernetes client raises its ApiException     *)
(* (404 Not Found), and KServeClient.delete wraps that ApiException in a   *)
(* RuntimeError.  Neither class derives from                               *)
(* requests.exceptions.RequestException.                                   *)

\* Cleanups run in one behaviour.
MaxCleanups == 2

CleanupScripts == {"llm/cleanup.py", "llm/utils/cleanup.py"}

\* what a deployment leaves on the cluster; the namespace is removed by
\* llm/utils/cleanup.py only
Resources == {"isvc", "pvc", "pv", "namespace"}

\* the exception a delete call raises for a resource that is gone
RaisedWhenGone(resource) ==
    IF resource = "isvc" THEN "RuntimeError" ELSE "ApiException"

\* llm/cleanup.py: except requests.exceptions.RequestException
\* llm/utils/cleanup.py: a bare except
except_clause_catches(script, exception) ==
    IF script = "llm/utils/cleanup.py"
    THEN TRUE
    ELSE exception = "RequestException"

\* the statement after the try block of the persistent volume
after_delete_pv(script) ==
    IF script = "llm/utils/cleanup.py" THEN "delete_namespace"
    ELSE "completed"

\* no cleanup is running
CleanupIdle ==
    /\ cl_pc = "off"
    /\ cl_script = "none"
    /\ cluster = {}
    /\ cl_runs = 0
    /\ cl_log = <<>>

\* the cluster holds any of the resources of the deployment
CleanupInit ==
    /\ cl_pc = "idle"
    /\ cl_script \in CleanupScripts
    /\ cluster \in SUBSET Resources
    /\ cl_runs = 0
    /\ cl_log = <<>>

cleanup_unch ==
    <<cl_script, cl_runs, verify_vars, health_vars, mars_vars, pipeline_vars,
      deploy_vars, config_vars>>

\* python3 cleanup.py --deploy_name ...: kubernetes(args.deploy_name)
CleanupStart ==
    /\ cl_pc \in {"idle", "completed", "uncaught"}
    /\ cl_runs < MaxCleanups
    /\ cl_runs' = cl_runs + 1
    /\ cl_log' = <<>>
    /\ cl_pc' = "delete_isvc"
    /\ UNCHANGED <<cl_script, cluster, verify_vars, health_vars, mars_vars,
                   pipeline_vars, deploy_vars, config_vars>>

\* try: <delete call on resource> except <clause>: print(...)
delete_in_try(resource, next) ==
    IF resource \in cluster
    THEN /\ cluster' = cluster \ {resource}
         /\ cl_log' = Append(cl_log, [call |-> resource, ended |-> "deleted"])
         /\ cl_pc' = next
    ELSE /\ UNCHANGED cluster
         /\ IF except_clause_catches(cl_script, RaisedWhenGone(resource))
            THEN /\ cl_log' = Append(cl_log, [call |-> resource,
                                              ended |-> "logged"])
                 /\ cl_pc' = next
            ELSE /\ cl_log' = Append(cl_log, [call |-> resource,
                                              ended |-> "raised"])
                 /\ cl_pc' = "uncaught"

\* kserve.delete(name=deploy_name, namespace="default")
DeleteIsvc ==
    /\ cl_pc = "delete_isvc"
    /\ delete_in_try("isvc", "delete_pvc")
    /\ UNCHANGED cleanup_unch

\* core_api.delete_namespaced_persistent_volume_claim(...)
DeletePvc ==
    /\ cl_pc = "delete_pvc"
    /\ delete_in_try("pvc", "delete_pv")
    /\ UNCHANGED cleanup_unch

\* core_api.delete_persistent_volume(name=deploy_name)
DeletePv ==
    /\ cl_pc = "delete_pv"
    /\ delete_in_try("pv", after_delete_pv(cl_script))
    /\ UNCHANGED cleanup_unch

\* llm/utils/cleanup.py: core_api.delete_namespace(name=namespace)
DeleteNamespace ==
    /\ cl_pc = "delete_namespace"
    /\ delete_in_try("namespace", "completed")
    /\ UNCHANGED cleanup_unch

CleanupNext ==
    \/ CleanupStart
    \/ DeleteIsvc
    \/ DeletePvc
    \/ DeletePv
    \/ DeleteNamespace

----------------------------------------------------------------------------
(* ConfigSpec: the numbers generate.set_config writes into the             *)
(* model_snapshot line, from the registration_params of model_config.json. *)

\* Largest value drawn for a registration parameter.
MaxParamValue == 2

RegistrationKeys ==
    {"initial_workers", "batch_size", "max_batch_delay", "response_timeout"}

\* Python's None among the numbers; no registration parameter is negative
None == -1

NoParams == [k \in {} |-> 0]

\* the model is no key of model_config.json (a custom model), a key
\* without registration_params, or a key with registration_params
ConfigEntries == {"not_in_config", "no_registration_params",
                  "registration_params"}

\* get_params_for_registration(model_name): each parameter, None when the
\* model, the registration_params or the key is missing
get_params_for_registration(entry, params) ==
    [k \in RegistrationKeys |->
        IF entry = "registration_params" /\ k \in DOMAIN params
        THEN params[k]
        ELSE None]

py_or_none_only(value, default) == IF value = None THEN default ELSE value

\* Python's  value or default  on None and numbers
py_or(value, default) ==
    IF value = None \/ value = 0 THEN default ELSE value

\* the numbers of config_info in set_config
set_config_values(entry, params) ==
    LET r == get_params_for_registration(entry, params)
    IN  [minWorkers |-> py_or(r["initial_workers"], 1),
         maxWorkers |-> py_or(r["initial_workers"], 1),
         batchSize |-> py_or(r["batch_size"], 1),
         maxBatchDelay |-> py_or(r["max_batch_delay"], 500),
         responseTimeout |-> py_or(r["response_timeout"], 2000)]

NoSnapshot == [minWorkers |-> None, maxWorkers |-> None, batchSize |-> None,
               maxBatchDelay |-> None, responseTimeout |-> None]

\* set_config is not being exercised
ConfigIdle ==
    /\ cs_pc = "off"
    /\ cs_model = "not_in_config"
    /\ registration_params = NoParams
    /\ model_snapshot = NoSnapshot

\* any catalog entry: each key absent, or present with a number from 0 up
ConfigInit ==
    /\ cs_pc = "input"
    /\ cs_model \in ConfigEntries
    /\ registration_params \in
          (IF cs_model = "registration_params"
           THEN UNION {[keys -> 0..MaxParamValue] :
                          keys \in SUBSET RegistrationKeys}
           ELSE {NoParams})
    /\ model_snapshot = NoSnapshot

\* set_config(gen_model): lines 119-137
WriteModelSnapshot ==
    /\ cs_pc = "input"
    /\ model_snapshot' = set_config_values(cs_model, registration_params)
    /\ cs_pc' = "written"
    /\ UNCHANGED <<cs_model, registration_params, verify_vars, health_vars,
                   mars_vars, pipeline_vars, deploy_vars, cleanup_vars>>

ConfigNext == WriteModelSnapshot

----------------------------------------------------------------------------
(* Spec: generate.run_script, run repeatedly for one model and version on  *)
(* one filesystem and against one unchanging hub listing.                  *)

\* Runs of run_script in one behaviour.
MaxRuns == 2

\* The paths the hub listing and model_path are drawn from in the runs.
RepoFiles == {ConfigJson, PytorchBin, ModelSafetensors}

\* f"{gen_model.model_name}.mar", and some other entry of mar_output
MAR == "model.mar"
STRAY == "stray"

\* the archiver has not been invoked; no model_snapshot line was appended
NoArgs == [invoked |-> FALSE]
NoLine == [written |-> FALSE]

\* a directory walk or a hub listing of a set of paths, in some order
RECURSIVE ListingOf(_)
ListingOf(S) ==
    IF S = {} THEN <<>>
    ELSE LET x == CHOOSE y \in S : TRUE
         IN  <<x>> \o ListingOf(S \ {x})

\* ["*" + pattern for pattern in extension_list]
get_ignore_pattern_list(extension_list) ==
    [k \in 1..Len(extension_list) |-> <<"*">> \o extension_list[k]]

\* fnmatch(name, "*" + suffix)
Fnmatch(name, pattern) == pattern[1] = "*" /\ EndsWith(name, Tail(pattern))

\* what snapshot_download(..., ignore_patterns=...) writes under local_dir
snapshot_download(repo_files, ignore_patterns) ==
    {f \in repo_files :
        ~\E k \in 1..Len(ignore_patterns) : Fnmatch(f, ignore_patterns[k])}

\* len(directory_contents) == 1 and directory_contents[0] == mar_filename
check_if_mar_file_exist(exists, directory_contents) ==
    exists /\ Cardinality(directory_contents) = 1 /\ MAR \in directory_contents

\* os.path.exists(model_path) and check_if_model_files_exist(gen_model)
run_download_skips(exists, files, repo_files) ==
    exists /\ check_if_model_files_exist(ListingOf(files), ListingOf(repo_files))

create_mar_accepts_files_unverified(custom, files, repo_files) ==
    TRUE

create_mar_accepts_files_custom_unchecked(custom, files, repo_files) ==
    IF ~custom
    THEN check_if_model_files_exist(ListingOf(files), ListingOf(repo_files))
    ELSE TRUE

\* the checks of create_mar on an existing model_path: a catalog model's
\* files must verify, a custom model's directory must not be empty
create_mar_accepts_files(custom, files, repo_files) ==
    IF ~custom
    THEN check_if_model_files_exist(ListingOf(files), ListingOf(repo_files))
    ELSE files # {}

Snapshot ==
    [mp_exists |-> mp_exists, mp_files |-> mp_files,
     mo_exists |-> mo_exists, mo_entries |-> mo_entries,
     mar_state |-> mar_state, mar_gen |-> mar_gen]

PipelineIdle ==
    /\ pc = "off"
    /\ exit_site = "none"
    /\ runs = 0
    /\ in_catalog = FALSE
    /\ remote_files = {}
    /\ download_model = FALSE
    /\ repo_id_given = FALSE
    /\ is_custom = FALSE
    /\ mp_exists = FALSE
    /\ mp_files = {}
    /\ mo_exists = FALSE
    /\ mo_entries = {}
    /\ mar_state = "none"
    /\ mar_gen = 0
    /\ cfg_lines = -1
    /\ dl_calls = 0
    /\ arch_calls = 0
    /\ prev_ok_dl = FALSE
    /\ start = Snapshot
    /\ catalog_repo_id = NoRepo
    /\ repo_id = NoRepo
    /\ repo_version = NoVersion
    /\ hf_token = NoToken
    /\ params_repo_version = NoVersion
    /\ handler_isfile = FALSE
    /\ model_path = NoPath
    /\ mar_output = NoPath
    /\ hub_log = <<>>
    /\ arch_args = NoArgs
    /\ cfg_last = NoLine
    /\ exit_cause = "none"

\* Before the first run the filesystem holds anything: model_path absent,
\* empty, partial or stale; mar_output absent or with any entries; a
\* config.properties of an earlier run or none.
Init ==
    /\ pc = "idle"
    /\ exit_site = "none"
    /\ runs = 0
    /\ in_catalog \in BOOLEAN
    /\ remote_files \in SUBSET RepoFiles
    /\ download_model = FALSE
    /\ repo_id_given = FALSE
    /\ is_custom = FALSE
    /\ mp_exists \in BOOLEAN
    /\ mp_files \in (IF mp_exists THEN SUBSET RepoFiles ELSE {{}})
    /\ mo_exists \in BOOLEAN
    /\ mo_entries \in (IF mo_exists THEN SUBSET {MAR, STRAY} ELSE {{}})
    /\ mar_state \in (IF MAR \in mo_entries THEN {"complete", "partial"}
                                            ELSE {"none"})
    /\ mar_gen = 0
    /\ cfg_lines \in {-1, 1}
    /\ dl_calls = 0
    /\ arch_calls = 0
    /\ prev_ok_dl = FALSE
    /\ start = Snapshot
    /\ catalog_repo_id = (IF in_catalog THEN OpenRepo ELSE NoRepo)
    /\ repo_id = NoRepo
    /\ repo_version = NoVersion
    /\ hf_token = NoToken
    /\ params_repo_version = NoVersion
    /\ handler_isfile = FALSE
    /\ model_path = NoPath
    /\ mar_output = NoPath
    /\ hub_log = <<>>
    /\ arch_args = NoArgs
    /\ cfg_last = NoLine
    /\ exit_cause = "none"
    /\ VerifyIdle /\ HealthIdle /\ MarsIdle /\ DeployIdle /\ ConfigIdle
    /\ CleanupIdle

RunEnded == pc \in {"done", "exit1", "crashed", "exit1_blocked"}

other_unch ==
    <<verify_vars, health_vars, mars_vars, deploy_vars, config_vars, cleanup_vars>>

\* gen_model = GenerateDataModel(params): set_values copies the command
\* line into gen_model
set_values(download, rid, requested, token, handler_ok) ==
    /\ runs' = runs + 1
    /\ download_model' = download
    /\ repo_id' = rid
    /\ repo_id_given' = (rid # NoRepo)
    /\ repo_version' = requested
    /\ params_repo_version' = requested
    /\ hf_token' = token
    /\ handler_isfile' = handler_ok
    /\ is_custom' = FALSE
    /\ dl_calls' = 0
    /\ arch_calls' = 0
    /\ hub_log' = <<>>
    /\ arch_args' = NoArgs
    /\ cfg_last' = NoLine
    /\ prev_ok_dl' = (pc = "done" /\ download_model)
    /\ start' = Snapshot
    /\ pc' = "read_config"
    /\ exit_site' = "none"
    /\ exit_cause' = "none"
    /\ model_path' = NoPath
    /\ mar_output' = NoPath
    /\ UNCHANGED <<fs_vars, in_catalog, remote_files, catalog_repo_id,
                   other_unch>>

\* one more invocation of generate.py for the same model and version, with
\* a token, an existing handler and no explicit version; the download flag
\* and --repo_id vary from run to run
RunStart ==
    /\ pc = "idle" \/ RunEnded
    /\ runs < MaxRuns
    /\ \E download \in BOOLEAN, rid \in {NoRepo, OpenRepo} :
          set_values(download, rid, NoVersion, SomeToken, TRUE)

\* one invocation of generate.py under any command line
RunOnce ==
    /\ pc = "idle"
    /\ runs = 0
    /\ \E download \in BOOLEAN,
          rid \in {NoRepo, OpenRepo, GatedRepo, UnknownRepo},
          requested \in RequestedVersions,
          token \in {NoToken, SomeToken},
          handler_ok \in BOOLEAN :
          set_values(download, rid, requested, token, handler_ok)

\* read_config_for_download(gen_model), then
\* check_if_path_exists(gen_model.output, "output", is_dir=True) and
\* gen_model.set_model_files_and_mar(params).  An output directory that
\* does not exist holds neither mar_output nor the configuration nor a
\* catalog model's model_path.
ReadConfig ==
    /\ pc = "read_config"
    /\ \E hub_ok \in BOOLEAN, output_isdir \in BOOLEAN :
          LET r == read_config_for_download(in_catalog, catalog_repo_id,
                       download_model, repo_id, repo_version, hf_token,
                       handler_isfile, hub_ok)
              paths == set_model_files_and_mar(r.is_custom, r.repo_version)
          IN  /\ ~output_isdir =>
                    (~mo_exists /\ cfg_lines = -1 /\ (in_catalog => ~mp_exists))
              /\ repo_id' = r.repo_id
              /\ repo_version' = r.repo_version
              /\ is_custom' = r.is_custom
              /\ hub_log' = hub_log \o r.hub
              /\ exit_cause' = IF r.exit # "none" THEN r.exit
                               ELSE IF ~output_isdir THEN "output"
                               ELSE "none"
              /\ IF exit_cause' = "none"
                 THEN /\ model_path' = paths.model_path
                      /\ mar_output' = paths.mar_output
                      /\ pc' = IF download_model THEN "run_download"
                                                 ELSE "create_mar"
                 ELSE /\ UNCHANGED <<model_path, mar_output>>
                      /\ pc' = "exit1"
    /\ exit_site' = IF pc' = "exit1" THEN "read_config" ELSE "none"
    /\ UNCHANGED <<fs_vars, runs, in_catalog, remote_files, download_model,
                   repo_id_given, dl_calls, arch_calls, prev_ok_dl, start,
                   catalog_repo_id, hf_token, params_repo_version,
                   handler_isfile, arch_args, cfg_last, other_unch>>

\* delete_directory(directory_path): nothing to do when the path does not
\* exist; shutil.rmtree otherwise, whose OSError is caught and printed, so
\* that any part of the old contents may survive the call
delete_directory_outcomes(exists, files) ==
    IF ~exists
    THEN {[exists |-> FALSE, files |-> {}]}
    ELSE {[exists |-> FALSE, files |-> {}]}
            \cup {[exists |-> TRUE, files |-> kept] : kept \in SUBSET files}

\* run_download(gen_model)
RunDownload ==
    /\ pc = "run_download"
    /\ \E hub_ok \in BOOLEAN :
       IF mp_exists /\ ~hub_ok
       THEN \* get_repo_files_list fails: sys.exit(1)
            /\ pc' = "exit1"
            /\ UNCHANGED <<mp_exists, mp_files, dl_calls>>
       ELSE IF run_download_skips(mp_exists, mp_files, remote_files)
       THEN /\ pc' = "create_mar"
            /\ UNCHANGED <<mp_exists, mp_files, dl_calls>>
       ELSE \E left \in delete_directory_outcomes(mp_exists, mp_files) :
              LET fetched == snapshot_download(remote_files,
                               get_ignore_pattern_list(FILE_EXTENSIONS_TO_IGNORE))
              IN  /\ mp_exists' = TRUE      \* create_folder_if_not_exists
                  /\ dl_calls' = dl_calls + 1
                  /\ \/ /\ mp_files' = left.files \cup fetched
                        /\ pc' = "create_mar"
                     \/ \* the download raises part-way: uncaught
                        /\ \E got \in SUBSET fetched :
                              /\ got # fetched
                              /\ mp_files' = left.files \cup got
                        /\ pc' = "crashed"
    /\ exit_site' = IF pc' = "create_mar" THEN "none" ELSE "run_download"
    /\ exit_cause' = IF pc' = "exit1" THEN "files_listing" ELSE "none"
    \* check_if_model_files_exist asks the hub only for an existing path
    /\ hub_log' = IF mp_exists THEN Append(hub_log, "list_repo_files")
                               ELSE hub_log
    /\ UNCHANGED <<mo_exists, mo_entries, mar_state, mar_gen, cfg_lines,
                   runs, in_catalog, remote_files, download_model,
                   repo_id_given, is_custom, arch_calls, prev_ok_dl, start,
                   catalog_repo_id, repo_id, repo_version, hf_token,
                   params_repo_version, handler_isfile, model_path,
                   mar_output, arch_args, cfg_last, other_unch>>

\* create_mar(gen_model), with generate_mars as one step.  create_mar
\* checks model_path and its files and creates mar_output; generate_mars
\* requires the requirements file and invokes the archiver with --force,
\* which ends with status 0 and a complete archive, or with a non-zero
\* status having written nothing or part of the archive.  After a non-zero
\* status sys.exit(1) is called with the reporter thread still polling (see
\* MarsSpec), which blocks the interpreter's exit.
CreateMar ==
    /\ pc = "create_mar"
    /\ IF check_if_mar_file_exist(mo_exists, mo_entries)
       THEN /\ pc' = "set_config"
            /\ exit_cause' = "none"
            /\ UNCHANGED <<mo_exists, mo_entries, mar_state, mar_gen,
                           arch_calls, arch_args, hub_log>>
       ELSE \E hub_ok \in BOOLEAN, requirements_isfile \in BOOLEAN :
            IF ~mp_exists
            THEN /\ pc' = "exit1"
                 /\ exit_cause' = "model_path"
                 /\ UNCHANGED <<mo_exists, mo_entries, mar_state, mar_gen,
                                arch_calls, arch_args, hub_log>>
            ELSE IF \/ (~is_custom /\ ~hub_ok)
                    \/ ~create_mar_accepts_files(is_custom, mp_files,
                                                 remote_files)
            THEN /\ pc' = "exit1"
                 /\ exit_cause' = IF is_custom THEN "empty"
                                  ELSE IF ~hub_ok THEN "files_listing"
                                  ELSE "mismatch"
                 /\ hub_log' = IF is_custom THEN hub_log
                               ELSE Append(hub_log, "list_repo_files")
                 /\ UNCHANGED <<mo_exists, mo_entries, mar_state, mar_gen,
                                arch_calls, arch_args>>
            ELSE /\ mo_exists' = TRUE    \* create_folder_if_not_exists
                 /\ hub_log' = IF is_custom THEN hub_log
                               ELSE Append(hub_log, "list_repo_files")
                 /\ IF (~in_catalog /\ ~is_custom) \/ ~requirements_isfile
                    THEN \* generate_mars: model name, requirements file
                         /\ pc' = "exit1"
                         /\ exit_cause' = "requirements"
                         /\ UNCHANGED <<mo_entries, mar_state, mar_gen,
                                        arch_calls, arch_args>>
                    ELSE /\ arch_calls' = arch_calls + 1
                         /\ arch_args' = [invoked |-> TRUE,
                                          version |-> repo_version,
                                          handler_isfile |-> handler_isfile,
                                          requirements_isfile |->
                                              requirements_isfile,
                                          model_path_isdir |-> mp_exists,
                                          export_path |-> mar_output]
                         /\ \/ /\ mo_entries' = mo_entries \cup {MAR}
                               /\ mar_state' = "complete"
                               /\ mar_gen' = mar_gen + 1
                               /\ pc' = "set_config"
                               /\ exit_cause' = "none"
                            \/ /\ mo_entries' = mo_entries \cup {MAR}
                               /\ mar_state' = "partial"
                               /\ mar_gen' = mar_gen + 1
                               /\ pc' = "exit1_blocked"
                               /\ exit_cause' = "archiver"
                            \/ /\ UNCHANGED <<mo_entries, mar_state, mar_gen>>
                               /\ pc' = "exit1_blocked"
                               /\ exit_cause' = "archiver"
    /\ exit_site' = IF pc' = "exit1" THEN "create_mar"
                    ELSE IF pc' = "exit1_blocked" THEN "generate_mars"
                    ELSE "none"
    /\ UNCHANGED <<mp_exists, mp_files, cfg_lines, runs, in_catalog,
                   remote_files, download_model, repo_id_given, is_custom,
                   dl_calls, prev_ok_dl, start, catalog_repo_id, repo_id,
                   repo_version, hf_token, params_repo_version,
                   handler_isfile, model_path, mar_output, cfg_last,
                   other_unch>>

\* model_spec_path of set_config, under which it creates config/
set_config_model_spec_path(custom, version) ==
    IF custom
    THEN <<OUTPUT, MODEL_NAME>>
    ELSE <<OUTPUT, MODEL_NAME, version>>

\* the path set_config requires to exist: model_spec_path/model-store/mar
set_config_mar_path(custom, version) ==
    set_config_model_spec_path(custom, version) \o <<MODEL_STORE_DIR, MAR>>

\* set_config(gen_model): copy the base config.properties (an OSError of
\* the copy is caught and printed), require the copy and the archive to
\* exist, append the model_snapshot line
SetConfig ==
    /\ pc = "set_config"
    /\ \E copied \in BOOLEAN :
          LET base == IF copied THEN 0 ELSE cfg_lines
              mar_isfile ==
                  /\ set_config_mar_path(is_custom, repo_version)
                        = Append(mar_output, MAR)
                  /\ MAR \in mo_entries
          IN  IF base = -1
              THEN /\ pc' = "exit1"
                   /\ exit_cause' = "config"
                   /\ cfg_lines' = base
                   /\ UNCHANGED cfg_last
              ELSE IF ~mar_isfile
              THEN /\ pc' = "exit1"
                   /\ exit_cause' = "model_store"
                   /\ cfg_lines' = base
                   /\ UNCHANGED cfg_last
              ELSE /\ pc' = "done"
                   /\ exit_cause' = "none"
                   /\ cfg_lines' = base + 1
                   /\ cfg_last' = [written |-> TRUE,
                                   name |-> MODEL_NAME,
                                   version |-> repo_version,
                                   marName |-> MAR]
    /\ exit_site' = IF pc' = "exit1" THEN "set_config" ELSE "none"
    /\ UNCHANGED <<mp_exists, mp_files, mo_exists, mo_entries, mar_state,
                   mar_gen, runs, in_catalog, remote_files, download_model,
                   repo_id_given, is_custom, dl_calls, arch_calls,
                   prev_ok_dl, start, catalog_repo_id, repo_id, repo_version,
                   hf_token, params_repo_version, handler_isfile, model_path,
                   mar_output, hub_log, arch_args, other_unch>>

Next == RunStart \/ ReadConfig \/ RunDownload \/ CreateMar \/ SetConfig

\* RunSpec: one run of run_script under any command line (repository id,
\* revision, token, handler, download flag), for a catalog model of either
\* namespace or a custom model, on a filesystem where model_path is absent,
\* empty, stale or verified and mar_output absent, empty or with an archive.
RunInit ==
    /\ pc = "idle"
    /\ exit_site = "none"
    /\ runs = 0
    /\ in_catalog \in BOOLEAN
    /\ remote_files = RepoFiles
    /\ download_model = FALSE
    /\ repo_id_given = FALSE
    /\ is_custom = FALSE
    /\ mp_exists \in BOOLEAN
    /\ mp_files \in (IF mp_exists
                     THEN {{}, {ConfigJson}, {ConfigJson, PytorchBin}}
                     ELSE {{}})
    /\ mo_exists \in BOOLEAN
    /\ mo_entries \in (IF mo_exists THEN {{}, {MAR}} ELSE {{}})
    /\ mar_state = (IF MAR \in mo_entries THEN "complete" ELSE "none")
    /\ mar_gen = 0
    /\ cfg_lines = -1
    /\ dl_calls = 0
    /\ arch_calls = 0
    /\ prev_ok_dl = FALSE
    /\ start = Snapshot
    /\ catalog_repo_id \in (IF in_catalog THEN HubRepos ELSE {NoRepo})
    /\ repo_id = NoRepo
    /\ repo_version = NoVersion
    /\ hf_token = NoToken
    /\ params_repo_version = NoVersion
    /\ handler_isfile = FALSE
    /\ model_path = NoPath
    /\ mar_output = NoPath
    /\ hub_log = <<>>
    /\ arch_args = NoArgs
    /\ cfg_last = NoLine
    /\ exit_cause = "none"
    /\ VerifyIdle /\ HealthIdle /\ MarsIdle /\ DeployIdle /\ ConfigIdle
    /\ CleanupIdle

RunNext == RunOnce \/ ReadConfig \/ RunDownload \/ CreateMar \/ SetConfig

----------------------------------------------------------------------------
(* Specifications.                                                         *)

VerifySpecInit ==
    VerifyInputs /\ HealthIdle /\ MarsIdle /\ PipelineIdle /\ DeployIdle
       /\ ConfigIdle /\ CleanupIdle

VerifySpec == VerifySpecInit /\ [][VerifyNext]_vars

HealthSpecInit ==
    HealthInit /\ VerifyIdle /\ MarsIdle /\ PipelineIdle /\ DeployIdle
       /\ ConfigIdle /\ CleanupIdle

HealthSpec == HealthSpecInit /\ [][HealthNext]_vars

MarsSpecInit ==
    MarsInit /\ VerifyIdle /\ HealthIdle /\ PipelineIdle /\ DeployIdle
       /\ ConfigIdle /\ CleanupIdle

MarsSpec == MarsSpecInit /\ [][MarsNext]_vars

DeploySpecInit ==
    DeployInit /\ VerifyIdle /\ HealthIdle /\ MarsIdle /\ PipelineIdle
       /\ ConfigIdle /\ CleanupIdle

ConfigSpecInit ==
    ConfigInit /\ VerifyIdle /\ HealthIdle /\ MarsIdle /\ PipelineIdle
       /\ DeployIdle /\ CleanupIdle

CleanupSpecInit ==
    CleanupInit /\ VerifyIdle /\ HealthIdle /\ MarsIdle /\ PipelineIdle
       /\ DeployIdle /\ ConfigIdle

CleanupSpec == CleanupSpecInit /\ [][CleanupNext]_vars

ConfigSpec == ConfigSpecInit /\ [][ConfigNext]_vars

DeploySpec == DeploySpecInit /\ [][DeployNext]_vars

RunSpec == RunInit /\ [][RunNext]_vars

Spec == Init /\ [][Next]_vars

----------------------------------------------------------------------------
(* Claims on the verification functions (VerifySpec).                      *)

HasIgnoredExtension(f) == MatchesAnySuffix(f, FILE_EXTENSIONS_TO_IGNORE)

IgnoredFiles == {f \in Files : HasIgnoredExtension(f)}

\* the paths of a hub listing that verification expects under model_path
ExpectedPaths(repo_files) == {f \in Elems(repo_files) : ~HasIgnoredExtension(f)}

Without(list, g) == SelectSeq(list, LAMBDA f : f # g)

IsPermutation(a, b) ==
    /\ Len(a) = Len(b)
    /\ \E p \in Permutations(1..Len(a)) : \A i \in 1..Len(a) : b[i] = a[p[i]]

\* C3: check_if_model_files_exist is true when the local paths and the
\* non-ignored remote paths are the same paths in any enumeration order, and
\* false whenever a non-ignored remote path is missing locally or a local
\* path is not in the remote listing.
C3_VerificationIsSetEquality ==
    v_pc = "verified" =>
        /\ (Elems(v_local) = ExpectedPaths(v_remote)) => v_result
        /\ (\E f \in ExpectedPaths(v_remote) : f \notin Elems(v_local))
               => ~v_result
        /\ (\E f \in Elems(v_local) : f \notin Elems(v_remote)) => ~v_result

\* verification passed on listings enumerated in different orders, with an
\* ignored entry in the remote listing
C3_Witness ==
    /\ v_pc = "verified"
    /\ v_result
    /\ Len(v_local) >= 2
    /\ v_local # filter_files_by_extension(v_remote, FILE_EXTENSIONS_TO_IGNORE)
    /\ \E f \in Elems(v_remote) : HasIgnoredExtension(f)

\* C4 (as amended): an ignored-extension entry of the REMOTE listing never
\* changes the verification result (adding or removing one leaves it as it
\* is), while an ignored-extension file under the local model_path is an
\* extra file like any other and makes verification fail.
C4_IgnoredRemoteEntriesNeverMismatch ==
    v_pc = "verified" =>
        /\ \A g \in IgnoredFiles :
              /\ check_if_model_files_exist(v_local, Append(v_remote, g))
                    = v_result
              /\ check_if_model_files_exist(v_local, Without(v_remote, g))
                    = v_result
        /\ (\E f \in Elems(v_local) : HasIgnoredExtension(f)) => ~v_result

\* verification passed although the remote listing holds ignored entries
C4_Witness ==
    /\ v_pc = "verified"
    /\ v_result
    /\ Len(v_local) >= 1
    /\ \E f \in Elems(v_remote) : HasIgnoredExtension(f)

\* C4 as stated: adding or removing an ignored-extension file on either
\* side, remote or local, leaves the verification result unchanged.
C4_Original_IgnoredOnEitherSide ==
    v_pc = "verified" =>
        \A g \in IgnoredFiles :
            /\ check_if_model_files_exist(v_local, Append(v_remote, g))
                  = v_result
            /\ check_if_model_files_exist(v_local, Without(v_remote, g))
                  = v_result
            /\ g \notin Elems(v_local) =>
                  check_if_model_files_exist(Append(v_local, g), v_remote)
                     = v_result
            /\ check_if_model_files_exist(Without(v_local, g), v_remote)
                  = v_result

\* C5 (as amended): compare_lists(A, B) is true exactly when B is a
\* rearrangement of A (same elements with the same multiplicities): it is
\* order-independent but counts repetitions.
C5_CompareListsIsMultisetEquality ==
    v_pc = "compared" => (v_result <=> IsPermutation(v_local, v_remote))

\* two lists with the same set of elements that a repeated path tells apart
C5_Witness ==
    /\ v_pc = "compared"
    /\ Elems(v_local) = Elems(v_remote)
    /\ ~NoDup(v_remote)
    /\ ~v_result

\* C5 as stated: compare_lists(A, B) is true exactly when the set of
\* elements of A equals the set of elements of B.
C5_Original_CompareListsIsSetEquality ==
    v_pc = "compared" => (v_result <=> (Elems(v_local) = Elems(v_remote)))

----------------------------------------------------------------------------
(* Claims on the health check (HealthSpec).                                *)

HealthEnded == hc_pc \in {"returned", "exit1", "uncaught"}

\* the process ended with exit status 1: sys.exit(1) or an uncaught error
HealthExitCode1 == hc_pc \in {"exit1", "uncaught"}

AllAttemptsNon200 ==
    \A i \in 1..Len(hc_log) : IsAttempt(hc_log[i]) => hc_log[i] = "non200"

CeilDiv(a, b) == (a + b - 1) \div b

\* C9 (as amended): when every attempt fails with a non-200 response,
\* health_check makes exactly ceil(model_timeout / 30) attempts (one for
\* each retry_count with retry_count * 30 < model_timeout) and then exits
\* with code 1; the number of attempts never exceeds that bound, for every
\* non-negative model_timeout.
C9_BoundedHealthCheckCeil ==
    /\ Attempts(hc_log) <= CeilDiv(model_timeout, sleep_time)
    /\ (hc_pc \in {"returned", "exit1"} /\ AllAttemptsNon200) =>
          /\ hc_pc = "exit1"
          /\ Attempts(hc_log) = CeilDiv(model_timeout, sleep_time)

\* a budget that is no multiple of the interval was exhausted by failures
C9_Witness ==
    /\ hc_pc = "exit1"
    /\ AllAttemptsNon200
    /\ model_timeout % sleep_time # 0
    /\ Attempts(hc_log) >= 2

\* C9 as stated: with every attempt failing, exactly
\* floor(model_timeout / 30) attempts are made before exit code 1.
C9_Original_FloorAttempts ==
    (hc_pc \in {"returned", "exit1"} /\ AllAttemptsNon200) =>
        /\ hc_pc = "exit1"
        /\ Attempts(hc_log) = model_timeout \div sleep_time

\* C10: health_check returns normally only if some attempt received HTTP
\* 200; no attempt follows the first 200; a 30-second sleep separates two
\* consecutive attempts; exit code 1 only if no attempt received 200; and a
\* health check that has not ended can always take its next step, so one of
\* the two outcomes, and only one, is reached.
C10_HealthCheckOutcomes ==
    /\ hc_pc = "returned" => \E i \in 1..Len(hc_log) : hc_log[i] = "200"
    /\ \A i \in 1..Len(hc_log) : hc_log[i] = "200" => i = Len(hc_log)
    /\ \A i \in 1..(Len(hc_log) - 1) :
          IsAttempt(hc_log[i]) => hc_log[i + 1] = "sleep"
    /\ HealthExitCode1 => \A i \in 1..Len(hc_log) : hc_log[i] # "200"
    /\ ~(hc_pc = "returned" /\ HealthExitCode1)
    /\ (hc_pc # "off" /\ ~HealthEnded) => ENABLED HealthNext

\* Healthy after failed attempts, each followed by a sleep
C10_Witness ==
    /\ hc_pc = "returned"
    /\ Len(hc_log) >= 5
    /\ hc_log[Len(hc_log)] = "200"

\* C28: a failed attempt never ends the health check before the budget is
\* exhausted: while retry_count * 30 is below model_timeout, an attempt
\* that failed, by a non-200 response or by an error raised while
\* contacting the endpoint, is followed by a 30-second sleep (and then by
\* the next attempt).
C28_FailedAttemptsAreRetried ==
    (/\ hc_log # <<>>
     /\ hc_log[Len(hc_log)] \in {"non200", "error"}
     /\ retry_count * sleep_time < model_timeout)
        => hc_pc = "sleep"

----------------------------------------------------------------------------
(* Claims on generate_mars and its reporter thread (MarsSpec).             *)

ArchiverEnded == a_status \in {"ok", "failed"}

\* C8: once the archiver subprocess has ended, with a zero or a non-zero
\* exit status, and the main thread has taken note of it, the stop signal
\* is set, so that the reporter leaves its polling loop: the main thread
\* never goes on to wait for the reporter (join, or interpreter shutdown
\* after sys.exit) with the stop signal unset.
C8_ReporterStoppedAfterArchiver ==
    (ArchiverEnded /\ m_pc \in {"join", "done", "sys_exit", "exited1"})
        => stop_monitoring

\* C27: in every interleaving of the main thread and the reporter thread,
\* also when the stop signal is set before the reporter has polled the file
\* size once, the reporter's reconcile step uses a file size it has sampled
\* (current_file_size is bound) and the reporter ends without an error.
C27_ReconcileUsesSampledSize ==
    /\ r_pc = "reconcile" => current_file_size # -1
    /\ r_pc # "error"

----------------------------------------------------------------------------
(* Claims on the deployment (DeploySpec).                                  *)

UnitAt(m, i) ==
    /\ i + 1 <= Len(m)
    /\ \E k \in 1..Len(kubMemUnits) : <<m[i], m[i + 1]>> = kubMemUnits[k]

\* no recognized unit occurs anywhere in the memory string
CarriesNoUnit(m) == \A i \in 1..Len(m) : ~UnitAt(m, i)

EndsWithUnit(m) == \E k \in 1..Len(kubMemUnits) : EndsWith(m, kubMemUnits[k])

\* C11: when the memory string carries no recognized unit (such as "4"),
\* execute ends at the memory validation with exit code 1 and no cluster
\* mutation call (persistent volume, claim, inference service) is made.
C11_MalformedMemoryFailsFast ==
    (d_pc # "off" /\ CarriesNoUnit(mem)) =>
        /\ d_pc \in {"mem_check", "exit1"}
        /\ d_calls = <<>>

\* the memory string "4" was rejected before any cluster call
C11_Witness ==
    /\ mem = <<"4">>
    /\ d_pc = "exit1"
    /\ d_calls = <<>>

\* C12: execute gets past the memory validation only if the memory string
\* ends with one of Ei, Pi, Ti, Gi, Mi, Ki; every other memory string is
\* rejected with exit code 1 at the validation, before any cluster call.
C12_MemoryValidationIsSuffixCheck ==
    (d_pc # "off" /\ ~EndsWithUnit(mem)) =>
        /\ d_pc \in {"mem_check", "exit1"}
        /\ d_calls = <<>>

----------------------------------------------------------------------------
(* Claims on the acquisition and packaging pipeline (Spec).                *)

\* the remote listing minus the entries with an ignored extension
ServingFiles == {f \in remote_files : ~HasIgnoredExtension(f)}

\* C1: when run_script is run twice in succession for the same model and
\* version with download enabled, and both runs return True, the second run
\* makes no download call and no archiver invocation.
C1_SecondRunSkipsDownloadAndPackaging ==
    (pc = "done" /\ download_model /\ prev_ok_dl) =>
        (dl_calls = 0 /\ arch_calls = 0)

\* C2: once run_download has returned normally, model_path holds exactly
\* the remote listing minus the ignored-extension entries, whatever it held
\* before; a directory that already verified is left untouched.
C2_ModelPathExactAfterDownload ==
    (pc = "create_mar" /\ download_model) =>
        /\ mp_exists
        /\ mp_files = ServingFiles
        /\ (start.mp_exists /\ start.mp_files = ServingFiles) => dl_calls = 0

\* the current run is for a catalog model and found a model_path whose
\* files differ from the filtered remote listing
CatalogMismatchAtStart ==
    /\ runs >= 1
    /\ in_catalog
    /\ start.mp_exists
    /\ start.mp_files # ServingFiles

\* C6 (as amended): for a catalog model whose model_path exists and holds
\* files that differ from the filtered remote listing, a run with
\* downloading disabled that finds no archive accepted by the existence
\* guard can only end with exit code 1, in read_config_for_download or in
\* create_mar: it never downloads, never invokes the archiver, never writes
\* the configuration, and leaves model_path unchanged.
C6_CatalogMismatchFatalWithoutDownload ==
    (/\ CatalogMismatchAtStart
     /\ ~download_model
     /\ ~check_if_mar_file_exist(start.mo_exists, start.mo_entries)) =>
        /\ pc \in {"read_config", "create_mar", "exit1"}
        /\ exit_site \in {"none", "read_config", "create_mar"}
        /\ dl_calls = 0
        /\ arch_calls = 0
        /\ mp_exists = start.mp_exists
        /\ mp_files = start.mp_files
        /\ mar_gen = start.mar_gen

\* create_mar refused stale files of a catalog model
C6_Witness ==
    /\ CatalogMismatchAtStart
    /\ start.mp_files # {}
    /\ ~download_model
    /\ pc = "exit1"
    /\ exit_site = "create_mar"
    /\ mp_files = start.mp_files

\* C6 as stated: in every configuration of the download flag such a run
\* never returns successfully, makes no download call and leaves model_path
\* unchanged.
C6_Original_CatalogMismatchAlwaysFatal ==
    (CatalogMismatchAtStart /\ RunEnded) =>
        /\ pc # "done"
        /\ dl_calls = 0
        /\ mp_exists = start.mp_exists
        /\ mp_files = start.mp_files

\* C7: in a run that found {model_name}.mar in mar_output, whatever else
\* mar_output held, the archiver is never invoked and the archive stays as
\* it was.
C7_ExistingArchiveNeverOverwritten ==
    (runs >= 1 /\ MAR \in start.mo_entries) =>
        /\ arch_calls = 0
        /\ mar_gen = start.mar_gen
        /\ mar_state = start.mar_state

\* C26: an archive accepted by the existence guard is a complete one: in a
\* sequence of runs, a run that skips packaging and goes on to write the
\* serving configuration, on an archive written by an archiver of an
\* earlier run of the sequence, finds an archive whose archiver ended
\* successfully, also after runs whose archiver exited non-zero or was
\* interrupted after it had started writing {model_name}.mar.
C26_AcceptedArchiveIsComplete ==
    (/\ pc \in {"set_config", "done"}
     /\ arch_calls = 0
     /\ mar_gen >= 1)
        => mar_state = "complete"

\* C30: after any number of successful runs for the same model and
\* version, also when the copy of the base configuration file failed in
\* one of them, config.properties holds exactly one model_snapshot line.
C30_ExactlyOneSnapshotLine ==
    pc = "done" => cfg_lines = 1

----------------------------------------------------------------------------
(* Claims on resolution and packaging of one run (RunSpec, Spec).          *)

\* the repository id the run resolves against: the catalog's for a catalog
\* model, --repo_id for a custom model
RepoIdUsed == IF in_catalog THEN catalog_repo_id ELSE repo_id

\* the run resolves a version on the hub: catalog flow, or custom flow with
\* --repo_id and download enabled
ResolvesOnHub == in_catalog \/ (download_model /\ repo_id # NoRepo)

\* the revision the run asks the hub about
RevisionAsked ==
    IF in_catalog /\ params_repo_version = NoVersion
    THEN CatalogVersion
    ELSE params_repo_version

IsCommitId(v) == \E i \in 1..Len(HubHistory) : v = HubHistory[i]

RevisionUnknown(rev) ==
    /\ rev # NoVersion
    /\ \A i \in 1..Len(HubHistory) :
          SubSeq(HubHistory[i], 1, Len(rev)) # rev

FilesystemUntouched ==
    /\ Snapshot = start
    /\ cfg_last = NoLine
    /\ dl_calls = 0
    /\ arch_calls = 0

\* C13: when the repository id to be used is in the gated namespace and no
\* token is supplied, the run exits with code 1 at the token check, before
\* any hub call (commit lookup, file listing) and before any download, in
\* the catalog flow and in the custom flow with --repo_id.
C13_TokenPrecondition ==
    (/\ runs >= 1
     /\ ResolvesOnHub
     /\ RepoIdUsed[1] = "meta-llama"
     /\ hf_token = NoToken) =>
        /\ pc \in {"read_config", "exit1"}
        /\ pc = "exit1" => exit_cause = "token"
        /\ hub_log = <<>>
        /\ dl_calls = 0
        /\ arch_calls = 0

\* a custom model with a gated --repo_id and no token was refused
C13_Witness ==
    /\ ~in_catalog
    /\ download_model
    /\ repo_id = GatedRepo
    /\ hf_token = NoToken
    /\ pc = "exit1"
    /\ exit_cause = "token"
    /\ hub_log = <<>>

\* C14: whenever the archiver is invoked, in a catalog or a custom run, the
\* handler path, the requirements file and model_path all exist; a run
\* whose handler path does not exist never invokes the archiver.
C14_RequiredPathsExistBeforePackaging ==
    /\ arch_args.invoked =>
          /\ arch_args.handler_isfile
          /\ arch_args.requirements_isfile
          /\ arch_args.model_path_isdir
    /\ (runs >= 1 /\ ~handler_isfile) => arch_calls = 0

\* C15 (as amended): whenever the archiver is invoked in a run that
\* resolves on the hub (catalog model, or custom model with --repo_id and
\* download), the version it is given is the commit id at the head of the
\* hub's commit lookup for the revision asked; in the custom flow without
\* download it is the version given on the command line, or "1.0" when
\* none was given, and no hub lookup is made; in every flow repo_version
\* stays what the archiver was given until the process ends.
C15_VersionAtPackaging ==
    arch_args.invoked =>
        /\ ResolvesOnHub =>
              /\ IsCommitId(arch_args.version)
              /\ SubSeq(arch_args.version, 1, Len(RevisionAsked))
                    = RevisionAsked
        /\ ~ResolvesOnHub =>
              /\ arch_args.version =
                    (IF params_repo_version = NoVersion
                     THEN PlaceholderVersion ELSE params_repo_version)
              /\ hub_log = <<>>
        /\ repo_version = arch_args.version

\* the archiver ran for a catalog model asked for by short hash
C15_Witness ==
    /\ arch_args.invoked
    /\ in_catalog
    /\ params_repo_version = ShortHash
    /\ arch_args.version = HeadCommit
    /\ pc = "done"

\* C15 as stated: on every path that reaches the archiver invocation
\* repo_version is a commit id returned by the hub's commit lookup, never a
\* user-supplied string, a placeholder or the empty string.
C15_Original_AlwaysCommitId ==
    arch_args.invoked =>
        /\ IsCommitId(arch_args.version)
        /\ hub_log # <<>>
        /\ hub_log[1] = "list_repo_commits"
        /\ repo_version = arch_args.version

\* C16: for a catalog model, once the paths are computed, repo_version is
\* the first commit id of the hub's lookup for the requested version (the
\* catalog default when none was requested), and model_path and mar_output
\* are derived from that commit id: requests by no version, by short hash
\* and by full hash of the same commit give the same two paths.
C16_CatalogPathsFromResolvedCommit ==
    (in_catalog /\ model_path # NoPath) =>
        /\ hub_log # <<>> /\ hub_log[1] = "list_repo_commits"
        /\ IsCommitId(repo_version)
        /\ model_path = <<OUTPUT, MODEL_NAME, repo_version, "download">>
        /\ mar_output = <<OUTPUT, MODEL_NAME, repo_version, "model-store">>
        /\ params_repo_version \in {NoVersion, ShortHash, HeadCommit} =>
              /\ repo_version = HeadCommit
              /\ model_path = <<OUTPUT, MODEL_NAME, HeadCommit, "download">>
              /\ mar_output = <<OUTPUT, MODEL_NAME, HeadCommit, "model-store">>

\* a catalog run asked for by short hash went through with the paths of the
\* full commit id
C16_Witness ==
    /\ in_catalog
    /\ params_repo_version = ShortHash
    /\ model_path = <<OUTPUT, MODEL_NAME, HeadCommit, "download">>
    /\ pc = "set_config"

\* C17: run_script exits with code 1 in read_config_for_download, having
\* created or deleted nothing and invoked neither the download nor the
\* archiver, when (a) the model is not in the catalog, no repo_id is given
\* and download is enabled, or (b) the hub does not know the repository id
\* or the requested revision.
C17_ResolutionFailuresBeforeSideEffects ==
    (/\ runs >= 1
     /\ \/ (~in_catalog /\ repo_id = NoRepo /\ download_model)
        \/ /\ ResolvesOnHub
           /\ \/ RepoIdUsed \notin HubRepos
              \/ RevisionUnknown(RevisionAsked)) =>
        /\ pc \in {"read_config", "exit1"}
        /\ pc = "exit1" => exit_site = "read_config"
        /\ FilesystemUntouched
        /\ model_path = NoPath

\* a revision the hub does not know ended the run at the commit lookup
C17_Witness ==
    /\ in_catalog
    /\ params_repo_version = BogusRevision
    /\ pc = "exit1"
    /\ exit_cause = "commit_lookup"
    /\ start.mp_exists

\* the model files are not there: model_path is absent, or, for a custom
\* model, an empty directory
ModelFilesMissingAtStart ==
    \/ ~start.mp_exists
    \/ (~in_catalog /\ start.mp_files = {})

\* C18: with downloading disabled and no archive in mar_output, a run that
\* finds the model files missing (catalog model: model_path absent; custom
\* model: model_path absent or empty) can only end with exit code 1,
\* without invoking the archiver and without writing a configuration.
C18_NoFilesNoDownloadIsFatal ==
    (/\ runs >= 1
     /\ ~download_model
     /\ MAR \notin start.mo_entries
     /\ ModelFilesMissingAtStart) =>
        /\ pc \in {"read_config", "create_mar", "exit1"}
        /\ exit_cause \in {"none", "token", "commit_lookup", "handler",
                           "output", "model_path", "empty"}
        /\ arch_calls = 0
        /\ mar_gen = start.mar_gen
        /\ cfg_last = NoLine

\* a custom model with an empty model_path was refused by create_mar
C18_Witness ==
    /\ ~in_catalog
    /\ ~download_model
    /\ start.mp_exists
    /\ start.mp_files = {}
    /\ MAR \notin start.mo_entries
    /\ pc = "exit1"
    /\ exit_cause = "empty"

\* C19: the model_snapshot line is appended only where {model_name}.mar
\* exists in the model-store directory of the model and version, and names
\* the model, the resolved repo_version and {model_name}.mar; after an
\* archiver failure the process exits with code 1 and no configuration is
\* written in that run.
C19_ConfigOnlyAfterPackaging ==
    /\ cfg_last.written =>
          /\ MAR \in mo_entries
          /\ cfg_last.name = MODEL_NAME
          /\ cfg_last.version = repo_version
          /\ cfg_last.marName = MAR
    /\ exit_cause = "archiver" =>
          /\ pc = "exit1"
          /\ cfg_last = NoLine

----------------------------------------------------------------------------
(* Claims on the rollout, the health check and the validation pass of      *)
(* execute (DeploySpec).                                                   *)

\* the cluster calls of execute, in the order of the state machine
ClusterCalls ==
    <<"create_persistent_volume",
      "create_namespaced_persistent_volume_claim",
      "kserve_create">>

\* C21: the persistent volume is created before the claim, the claim before
\* the inference service, and the inference service before the first
\* health-check request; once one of these steps has failed none of the
\* later steps is performed; the validation pass runs only after the health
\* check has reached Healthy.
C21_DeploymentFollowsStateMachine ==
    /\ Len(d_calls) <= Len(ClusterCalls)
    /\ d_calls = SubSeq(ClusterCalls, 1, Len(d_calls))
    /\ (hc_pc # "off" \/ hc_log # <<>>) =>
          /\ d_calls = ClusterCalls
          /\ d_failed = "none"
    /\ d_failed # "none" =>
          /\ d_calls[Len(d_calls)] = d_failed
          /\ hc_pc = "off"
          /\ hc_log = <<>>
          /\ input_path = "unread"
          /\ infer_log = <<>>
    /\ (input_path # "unread" \/ infer_log # <<>>) =>
          /\ hc_pc = "returned"
          /\ success
          /\ hc_log[Len(hc_log)] = "200"

\* a deployment that went through every state: Healthy after a failed
\* attempt, then a validation pass that made its calls
C21_Witness ==
    /\ d_pc = "done"
    /\ d_calls = ClusterCalls
    /\ Len(hc_log) >= 3
    /\ Len(infer_log) = MaxInputs

\* the part of the storage URI after the deployment name
UriDirectory == SubSeq(storageuri, 3, Len(storageuri))

\* C22: the storage URI is pvc://{deploy_name}/{model_name}/{resolved
\* commit id} for a catalog model and pvc://{deploy_name}/{model_name} for
\* a custom model, and what follows the deployment name is the directory,
\* relative to the output root, under which generate.py, run for the same
\* model, revision and token (with or without download, and for a custom
\* model with or without --repo_id), places model-store/ and config/.
C22_StorageUriAddressesPackagedArtifact ==
    storageuri # <<>> =>
        /\ storageuri[1] = "pvc://"
        /\ storageuri[2] = DEPLOY_NAME
        /\ UriDirectory = IF d_in_catalog
                          THEN <<MODEL_NAME, model_info.repo_version>>
                          ELSE <<MODEL_NAME>>
        /\ d_in_catalog => IsCommitId(model_info.repo_version)
        /\ \A download \in BOOLEAN, rid \in {NoRepo} \cup HubRepos :
              LET gen == read_config_for_download(d_in_catalog,
                             model_info.repo_id, download, rid, d_requested,
                             model_info.hf_token, TRUE, TRUE)
                  paths == set_model_files_and_mar(gen.is_custom,
                                                   gen.repo_version)
              IN  gen.exit = "none" =>
                     /\ paths.mar_output
                           = <<OUTPUT>> \o UriDirectory \o <<MODEL_STORE_DIR>>
                     /\ set_config_model_spec_path(gen.is_custom,
                                                   gen.repo_version)
                           = <<OUTPUT>> \o UriDirectory

\* the inference service of a catalog model was requested for a revision
\* given as a short hash
C22_Witness ==
    /\ d_in_catalog
    /\ d_requested = ShortHash
    /\ d_calls = ClusterCalls
    /\ storageuri = <<"pvc://", DEPLOY_NAME, MODEL_NAME, HeadCommit>>

\* the outcome of the last inference call of the validation pass
LastOutcome == infer_log[Len(infer_log)].outcome

\* C23: with a directory of inputs, after Healthy, one inference call is
\* made per input file, in the order of the listing; the first call that
\* does not return HTTP 200 ends the process at once with exit status 1:
\* that input is not retried and the remaining inputs are not called.
C23_ValidationPassFailsFast ==
    /\ infer_log # <<>> =>
          /\ input_path = "dir"
          /\ hc_pc = "returned"
    /\ Len(infer_log) <= Len(model_inputs)
    /\ \A i \in 1..Len(infer_log) : infer_log[i].input = model_inputs[i]
    /\ \A i \in 1..(Len(infer_log) - 1) : infer_log[i].outcome = "200"
    /\ (infer_log # <<>> /\ LastOutcome = "non200") =>
          /\ d_pc = "exit1"
          /\ d_exit_cause = "inference"
    /\ (infer_log # <<>> /\ LastOutcome = "error") => d_pc = "uncaught"
    /\ (d_pc = "done" /\ input_path = "dir") =>
          /\ Len(infer_log) = Len(model_inputs)
          /\ LastOutcome = "200"

\* the first of two inputs got a response other than 200
C23_Witness ==
    /\ Len(model_inputs) = 2
    /\ Len(infer_log) = 1
    /\ LastOutcome = "non200"
    /\ d_pc = "exit1"

\* C25: for a catalog model execute resolves the version to a commit id
\* and, when the directory {mount_path}/{model_name}/{commit id} does not
\* exist, exits with code 1 before any cluster mutation; for a custom model
\* the check is not made.
C25_VersionDirectoryCheckedBeforeMutation ==
    /\ d_in_catalog =>
          /\ d_version_dir # "unchecked" =>
                /\ IsCommitId(model_info.repo_version)
                /\ d_hub_log = <<"list_repo_commits">>
          /\ d_version_dir = "missing" =>
                /\ d_pc = "exit1"
                /\ d_exit_cause = "version_dir"
                /\ d_calls = <<>>
                /\ storageuri = <<>>
          /\ d_calls # <<>> => d_version_dir = "exists"
    /\ ~d_in_catalog =>
          /\ d_version_dir = "unchecked"
          /\ d_hub_log = <<>>
          /\ d_exit_cause \notin {"token", "commit_lookup", "version_dir"}

\* the short hash was resolved and the directory of that commit is missing
C25_Witness ==
    /\ d_in_catalog
    /\ d_requested = ShortHash
    /\ model_info.repo_version = HeadCommit
    /\ d_version_dir = "missing"
    /\ d_pc = "exit1"

\* C29: the validation pass over a directory that holds no files completes
\* without error: execute_inference_on_inputs, called with an empty list,
\* makes no inference call and returns.
C29_EmptyInputListCompletes ==
    (input_path = "dir" /\ model_inputs = <<>> /\ d_pc # "infer") =>
        /\ d_pc = "done"
        /\ infer_log = <<>>

----------------------------------------------------------------------------
(* Claims on the cleanup (CleanupSpec).                                    *)

\* the delete calls of the current cleanup, in the order they were made
CleanupCalls == [i \in 1..Len(cl_log) |-> cl_log[i].call]

\* C24: cleanup is re-entrant: it attempts to delete the inference
\* service, then the claim, then the persistent volume; a deletion that
\* fails because the resource is already gone is logged and neither
\* prevents the later deletions nor makes the cleanup fatal, so a cleanup,
\* also a second one in a row for the same deployment, completes.
C24_CleanupIsReentrant ==
    /\ \A i \in 1..Len(cl_log) : cl_log[i].ended # "raised"
    /\ cl_pc # "uncaught"
    /\ Len(cl_log) <= 3 =>
          CleanupCalls = SubSeq(<<"isvc", "pvc", "pv">>, 1, Len(cl_log))
    /\ cl_pc = "completed" => Len(cl_log) >= 3

----------------------------------------------------------------------------
(* Claims on the serving-configuration values (ConfigSpec).                *)

\* the catalog overrides the parameter with a number other than 0
Overridden(k) ==
    /\ cs_model = "registration_params"
    /\ k \in DOMAIN registration_params
    /\ registration_params[k] > 0

ValueOrDefault(k, default) ==
    IF Overridden(k) THEN registration_params[k] ELSE default

\* the catalog entry of the model has the key, whatever its value
KeyPresent(k) ==
    /\ cs_model = "registration_params"
    /\ k \in DOMAIN registration_params

\* C20 (as amended): each of worker count (minWorkers and maxWorkers),
\* batchSize, maxBatchDelay and responseTimeout written by
\* generate.set_config equals the catalog's registration override when the
\* key is present with a value other than 0, and otherwise (key absent,
\* value 0, or model not in the catalog) the fixed default: 1 worker, batch
\* size 1, max batch delay 500 and response timeout 2000, for catalog and
\* custom models alike.
C20_SnapshotValues ==
    cs_pc = "written" =>
        /\ model_snapshot.minWorkers = ValueOrDefault("initial_workers", 1)
        /\ model_snapshot.maxWorkers = ValueOrDefault("initial_workers", 1)
        /\ model_snapshot.batchSize = ValueOrDefault("batch_size", 1)
        /\ model_snapshot.maxBatchDelay
              = ValueOrDefault("max_batch_delay", 500)
        /\ model_snapshot.responseTimeout
              = ValueOrDefault("response_timeout", 2000)

\* an override of 0 workers was written as the default next to a batch
\* size taken from the catalog
C20_Witness ==
    /\ cs_pc = "written"
    /\ KeyPresent("initial_workers")
    /\ registration_params["initial_workers"] = 0
    /\ model_snapshot.minWorkers = 1
    /\ KeyPresent("batch_size")
    /\ registration_params["batch_size"] = 2
    /\ model_snapshot.batchSize = 2

\* C20 as stated: each value equals the override whenever the key is
\* present, whatever its value, and otherwise the default: 1, 1, 500, and a
\* response timeout of 2000 for a catalog model and 60 for a custom model.
C20_Original_OverrideWhateverItsValue ==
    cs_pc = "written" =>
        /\ model_snapshot.minWorkers =
              (IF KeyPresent("initial_workers")
               THEN registration_params["initial_workers"] ELSE 1)
        /\ model_snapshot.maxWorkers = model_snapshot.minWorkers
        /\ model_snapshot.batchSize =
              (IF KeyPresent("batch_size")
               THEN registration_params["batch_size"] ELSE 1)
        /\ model_snapshot.maxBatchDelay =
              (IF KeyPresent("max_batch_delay")
               THEN registration_params["max_batch_delay"] ELSE 500)
        /\ model_snapshot.responseTimeout =
              (IF KeyPresent("response_timeout")
               THEN registration_params["response_timeout"]
               ELSE IF cs_model = "not_in_config" THEN 60 ELSE 2000)

====
